---- MODULE Spec2Model ----
(***************************************************************************)
(* Model of the lexis-license-bot redemption workflow: the /redeem slash   *)
(* command (src/src/config/config.js:294-519), the panel's redeem modal    *)
(* (src/unnamed/part_002:194-342), the slash-command dispatcher            *)
(* handleSlashCommand (src/unnamed/part_002:29-93) with the /panel command *)
(* (src/src/bot/commands/panel.js), the SQLite ledger                      *)
(* (src/src/api/database.js) and the SellAuth invoice verifier             *)
(* (src/unnamed/part_000).                                                 *)
(*                                                                         *)
(* Time is counted in whole hours since the epoch.  Every await of a       *)
(* handler is one action: a statement or request is issued in one step and *)
(* answered in a later one, so the clock and the other invocations step in *)
(* between exactly at the handlers' suspension points.                     *)
(* Discord accepts the replies of the redeem and key handlers              *)
(* (deferReply/editReply/send); it may reject the reply of /panel, whose   *)
(* execute then rejects into handleSlashCommand's catch block (/redeem's   *)
(* execute never rejects: its catch block guards its own reply).           *)
(***************************************************************************)
EXTENDS Integers, Sequences, FiniteSets, Bags, TLC

VARIABLES
    now,                \* Date.now() / SQLite clock, in hours
    ticks,              \* number of clock advances so far
    faults,             \* number of storage / transport faults injected so far
    issued,             \* number of license keys KeyAuth has minted so far
    rate_limits,        \* table rate_limits: <<user_id, action>> -> row or NoRow
    redeemed_invoices,  \* table redeemed_invoices: set of rows
    audit_log,          \* table audit_log: bag of rows
    pc,                 \* position of each invocation
    req,                \* interaction of each invocation: user, raw invoice id, entry point
    cutoffTime,         \* checkRateLimit's timeWindow, the parameter bound to its SELECT
    rlRow,              \* checkRateLimit's local `result` (row read by the SELECT)
    resetAfterParam,    \* reset_after parameter of the INSERT checkRateLimit issued
    rateLimitResult,    \* rateLimitResult (what checkRateLimit returned)
    alreadyRedeemed,    \* alreadyRedeemed (what isInvoiceRedeemed returned)
    verification,       \* invoiceVerification / verificationResult
    licenseResult,      \* licenseResult
    err,                \* error caught by the handler's catch
    outcome,            \* reply shown to the user
    lookup,             \* history: ids the invocation requested from the storefront
    response,           \* history: the storefront's answer to that request
    startedAt,          \* history: time the invocation started
    before,             \* history: invocations already ended when this one started
    calls,              \* history: number of direct checkRateLimit calls made so far
    userLicenses        \* what the last key retrieval read: user and rows returned

envVars   == <<now, ticks, faults, issued>>
dbVars    == <<rate_limits, redeemed_invoices, audit_log>>
taskVars  == <<pc, req, cutoffTime, rlRow, resetAfterParam, rateLimitResult,
               alreadyRedeemed, verification, licenseResult, err, outcome>>
histVars  == <<lookup, response, startedAt, before, calls>>
vars      == <<envVars, dbVars, taskVars, histVars, userLicenses>>

---------------------------------------------------------------------------
(* Bounds of the model *)

MaxTicks  == 1      \* clock advances in one behaviour
MaxFaults == 1      \* injected storage / transport / Discord faults in one behaviour

(* Program constants *)

redemptionsPerDay == 1      \* config.security.rateLimits.redemptionsPerDay
RateWindowHours   == 24     \* the literal 24 passed to checkRateLimit
MinInvoiceIdLen   == 5      \* sanitizeInvoiceId lower length bound
MaxInvoiceIdLen   == 50     \* sanitizeInvoiceId upper length bound
MaxInvoiceAgeHours == 720   \* 30 * 24 hours in validateInvoice
HoursPerDay       == 24     \* calendar day of the timestamp texts

StartHour == 40 * HoursPerDay + 23   \* the behaviours start at 23:00 UTC of day 40

\* The invocations of one behaviour: two handler runs, which may overlap.
\* Each is a redemption (/redeem or the modal) or a /panel command.
Tasks == { 1, 2 }

---------------------------------------------------------------------------
(* Timestamps.  A timestamp text is <<day, separator, hour of day>>: the    *)
(* date part is fixed-width, so texts compare as SQLite compares TEXT      *)
(* values (memcmp): by date, then by the separator character, then by the  *)
(* time part.                                                              *)

CharCode(c) ==
    IF c = " " THEN 32 ELSE 84

\* SQLite CURRENT_TIMESTAMP: 'YYYY-MM-DD HH:MM:SS'
SqliteText(t) ==
    <<t \div HoursPerDay, " ", t % HoursPerDay>>

\* Date.prototype.toISOString: 'YYYY-MM-DDTHH:MM:SS.sssZ'
IsoText(t) ==
    <<t \div HoursPerDay, "T", t % HoursPerDay>>

\* new Date(text).getTime()
ParseDate(text) ==
    text[1] * HoursPerDay + text[3]

\* a > b for two TEXT values
TextGreater(a, b) ==
    \/ a[1] > b[1]
    \/ /\ a[1] = b[1]
       /\ \/ CharCode(a[2]) > CharCode(b[2])
          \/ CharCode(a[2]) = CharCode(b[2]) /\ a[3] > b[3]

---------------------------------------------------------------------------
(* SellAuth invoice verifier (src/unnamed/part_000).  An invoice id is a   *)
(* JavaScript string: a sequence of UTF-16 code units, each written as its *)
(* number (65 is "A", 33 is "!", 160 is U+00A0).                           *)

\* [a-zA-Z0-9\-_]: the digits, the upper and lower case letters, "-", "_"
AllowedChars ==
    (48 .. 57) \cup (65 .. 90) \cup (97 .. 122) \cup { 45, 95 }

\* Characters String.prototype.trim removes: the ECMAScript WhiteSpace code
\* points TAB, VT, FF, SP, NBSP (U+00A0), ZWNBSP (U+FEFF) and the other
\* space separators U+1680, U+2000..U+200A, U+202F, U+205F, U+3000, and the
\* LineTerminator code points LF, CR, U+2028, U+2029.
WhiteSpace ==
    { 9, 11, 12, 32, 160, 65279 }
    \cup { 5760, 8239, 8287, 12288 } \cup (8192 .. 8202)
    \cup { 10, 13, 8232, 8233 }

SP   == 32      \* " "
BANG == 33      \* "!", which the character filter strips
NBSP == 160     \* U+00A0 no-break space
EMSP == 8195    \* U+2003 em space
ZWSP == 8203    \* U+200B zero width space, which trim does not remove

RECURSIVE TrimStart(_)
TrimStart(s) ==
    IF s # <<>> /\ Head(s) \in WhiteSpace THEN TrimStart(Tail(s)) ELSE s

RECURSIVE TrimEnd(_)
TrimEnd(s) ==
    IF s # <<>> /\ s[Len(s)] \in WhiteSpace
    THEN TrimEnd(SubSeq(s, 1, Len(s) - 1))
    ELSE s

Trim(s) ==
    TrimEnd(TrimStart(s))

IsAllowedChar(c) ==
    c \in AllowedChars

\* clean.replace(/[^a-zA-Z0-9\-_]/g, '')
StripDisallowed(s) ==
    SelectSeq(s, IsAllowedChar)

\* mutant of sanitizeInvoiceId: the length is checked after the stripping
sanitizeInvoiceIdLengthAfterStrip(invoiceId) ==
    LET clean == StripDisallowed(Trim(invoiceId)) IN
    IF Len(clean) < MinInvoiceIdLen \/ Len(clean) > MaxInvoiceIdLen
    THEN [ok |-> FALSE, clean |-> <<>>,
          message |-> "Invoice ID must be between 5 and 50 characters"]
    ELSE [ok |-> TRUE, clean |-> clean, message |-> ""]

\* mutant of sanitizeInvoiceId: the input is not trimmed before its length
\* is checked
sanitizeInvoiceIdNoTrim(invoiceId) ==
    IF Len(invoiceId) < MinInvoiceIdLen \/ Len(invoiceId) > MaxInvoiceIdLen
    THEN [ok |-> FALSE, clean |-> <<>>,
          message |-> "Invoice ID must be between 5 and 50 characters"]
    ELSE LET clean == StripDisallowed(invoiceId) IN
         IF clean = <<>>
         THEN [ok |-> FALSE, clean |-> <<>>,
               message |-> "Invoice ID contains invalid characters"]
         ELSE [ok |-> TRUE, clean |-> clean, message |-> ""]

\* ok = FALSE stands for the thrown Error
sanitizeInvoiceId(invoiceId) ==
    IF invoiceId = <<>>
    THEN [ok |-> FALSE, clean |-> <<>>, message |-> "Invalid invoice ID format"]
    ELSE LET trimmed == Trim(invoiceId) IN
         IF Len(trimmed) < MinInvoiceIdLen \/ Len(trimmed) > MaxInvoiceIdLen
         THEN [ok |-> FALSE, clean |-> <<>>,
               message |-> "Invoice ID must be between 5 and 50 characters"]
         ELSE LET clean == StripDisallowed(trimmed) IN
              IF clean = <<>>
              THEN [ok |-> FALSE, clean |-> <<>>,
                    message |-> "Invoice ID contains invalid characters"]
              ELSE [ok |-> TRUE, clean |-> clean, message |-> ""]

\* Invoice data as the storefront returns it.  created_at and amount are
\* <<>> when the field is missing (or, for created_at, unparsable) and <<v>>
\* otherwise.
NoInvoice ==
    [id |-> <<>>, paid |-> FALSE, status |-> "", created_at |-> <<>>,
     amount |-> <<>>, product_id |-> "", product_name |-> ""]

\* no HTTP response: the request timed out, failed in transit, or was not made
NoResponse ==
    [status |-> 0, data |-> NoInvoice]

\* mutant of validateInvoice: only the status field decides the paid check
validateInvoiceStatusOnly(invoiceData, nowH) ==
    IF invoiceData.status # "paid"
    THEN [valid |-> FALSE, reason |-> "not paid"]
    ELSE IF /\ invoiceData.created_at # <<>>
            /\ invoiceData.created_at[1] < nowH - MaxInvoiceAgeHours
    THEN [valid |-> FALSE, reason |-> "too old"]
    ELSE IF invoiceData.amount = <<>> \/ invoiceData.amount[1] <= 0
    THEN [valid |-> FALSE, reason |-> "invalid amount"]
    ELSE [valid |-> TRUE, reason |-> "valid"]

\* mutant of validateInvoice: an amount of zero passes the amount check
validateInvoiceZeroAmount(invoiceData, nowH) ==
    IF ~invoiceData.paid \/ invoiceData.status # "paid"
    THEN [valid |-> FALSE, reason |-> "not paid"]
    ELSE IF /\ invoiceData.created_at # <<>>
            /\ invoiceData.created_at[1] < nowH - MaxInvoiceAgeHours
    THEN [valid |-> FALSE, reason |-> "too old"]
    ELSE IF invoiceData.amount = <<>> \/ invoiceData.amount[1] < 0
    THEN [valid |-> FALSE, reason |-> "invalid amount"]
    ELSE [valid |-> TRUE, reason |-> "valid"]

\* mutant of validateInvoice: the amount is checked before the age
validateInvoiceAmountFirst(invoiceData, nowH) ==
    IF ~invoiceData.paid \/ invoiceData.status # "paid"
    THEN [valid |-> FALSE, reason |-> "not paid"]
    ELSE IF invoiceData.amount = <<>> \/ invoiceData.amount[1] <= 0
    THEN [valid |-> FALSE, reason |-> "invalid amount"]
    ELSE IF /\ invoiceData.created_at # <<>>
            /\ invoiceData.created_at[1] < nowH - MaxInvoiceAgeHours
    THEN [valid |-> FALSE, reason |-> "too old"]
    ELSE [valid |-> TRUE, reason |-> "valid"]

\* mutant of validateInvoice: only one product is accepted
validateInvoiceOneProduct(invoiceData, nowH) ==
    IF ~invoiceData.paid \/ invoiceData.status # "paid"
    THEN [valid |-> FALSE, reason |-> "not paid"]
    ELSE IF invoiceData.product_id # "P1"
    THEN [valid |-> FALSE, reason |-> "wrong product"]
    ELSE IF /\ invoiceData.created_at # <<>>
            /\ invoiceData.created_at[1] < nowH - MaxInvoiceAgeHours
    THEN [valid |-> FALSE, reason |-> "too old"]
    ELSE IF invoiceData.amount = <<>> \/ invoiceData.amount[1] <= 0
    THEN [valid |-> FALSE, reason |-> "invalid amount"]
    ELSE [valid |-> TRUE, reason |-> "valid"]

\* The reasons stand for the messages: "not paid" for 'Invoice is not marked
\* as paid...', "too old" for 'This invoice is too old to redeem...',
\* "invalid amount" for 'Invalid invoice amount.' and "valid" for 'Invoice is
\* valid and can be redeemed.'
validateInvoice(invoiceData, nowH) ==
    IF ~invoiceData.paid \/ invoiceData.status # "paid"
    THEN [valid |-> FALSE, reason |-> "not paid"]
    ELSE IF /\ invoiceData.created_at # <<>>
            /\ invoiceData.created_at[1] < nowH - MaxInvoiceAgeHours
    THEN [valid |-> FALSE, reason |-> "too old"]
    ELSE IF invoiceData.amount = <<>> \/ invoiceData.amount[1] <= 0
    THEN [valid |-> FALSE, reason |-> "invalid amount"]
    ELSE [valid |-> TRUE, reason |-> "valid"]

\* The ids verifyInvoice requests from the storefront for a raw id.
StorefrontRequests(invoiceId) ==
    LET s == sanitizeInvoiceId(invoiceId) IN
    IF s.ok THEN <<s.clean>> ELSE <<>>

\* mutant of verifyInvoice: the catch block has no case for status 429
verifyInvoiceNo429(invoiceId, http, nowH) ==
    LET s == sanitizeInvoiceId(invoiceId)
        failed(reason, error) ==
            [valid |-> FALSE, reason |-> reason, error |-> error,
             invoiceData |-> NoInvoice]
    IN
    IF ~s.ok THEN failed("try again later", "NETWORK_ERROR")
    ELSE IF http.status = 0 THEN failed("try again later", "NETWORK_ERROR")
    ELSE IF http.status = 404 THEN failed("not found", "INVOICE_NOT_FOUND")
    ELSE IF http.status = 401 THEN failed("authentication failed", "AUTHENTICATION_FAILED")
    ELSE IF http.status = 403 THEN failed("access denied", "ACCESS_DENIED")
    ELSE IF http.status < 200 \/ http.status >= 300 THEN failed("api error", "API_ERROR")
    ELSE IF http.data.id = <<>> THEN failed("try again later", "NETWORK_ERROR")
    ELSE LET v == validateInvoice(http.data, nowH) IN
         [valid |-> v.valid, reason |-> v.reason, error |-> "",
          invoiceData |-> http.data]

\* verifyInvoice's result, given the storefront's answer to its request:
\* http.status is the HTTP status, 0 when there was no response.
verifyInvoice(invoiceId, http, nowH) ==
    LET s == sanitizeInvoiceId(invoiceId)
        failed(reason, error) ==
            [valid |-> FALSE, reason |-> reason, error |-> error,
             invoiceData |-> NoInvoice]
    IN
    IF ~s.ok THEN failed("try again later", "NETWORK_ERROR")
    ELSE IF http.status = 0 THEN failed("try again later", "NETWORK_ERROR")
    ELSE IF http.status = 404 THEN failed("not found", "INVOICE_NOT_FOUND")
    ELSE IF http.status = 401 THEN failed("authentication failed", "AUTHENTICATION_FAILED")
    ELSE IF http.status = 403 THEN failed("access denied", "ACCESS_DENIED")
    ELSE IF http.status = 429 THEN failed("rate limit exceeded", "RATE_LIMITED")
    ELSE IF http.status < 200 \/ http.status >= 300 THEN failed("api error", "API_ERROR")
    ELSE IF http.data.id = <<>> THEN failed("try again later", "NETWORK_ERROR")
    ELSE LET v == validateInvoice(http.data, nowH) IN
         [valid |-> v.valid, reason |-> v.reason, error |-> "",
          invoiceData |-> http.data]

---------------------------------------------------------------------------
(* The storefront and the inputs of the model *)

Users   == { "U1", "U2" }

\* the entry points of a redemption: the /redeem command and the redeem modal
Entries == { "command", "modal" }

\* the /panel command, which handleSlashCommand dispatches as it does /redeem
PanelEntry == "panel"

\* the entry points handleSlashCommand serves
SlashCommands == { "command", PanelEntry }

\* /panel takes no invoice id
NoId == << >>

INV01     == << 73, 78, 86, 48, 49 >>         \* "INV01"
INV01bang == << 73, 78, 86, 48, 49, BANG >>   \* "INV01!"
INV02     == << 73, 78, 86, 48, 50 >>         \* "INV02"

\* raw invoice ids a user may type (Discord enforces 5..50 characters)
RawIds == { INV01, INV01bang, INV02 }

\* invoices the storefront holds: both paid, one day old at the start
CatalogueIds == { INV01, INV02 }

CatalogueInvoice(id) ==
    [id |-> id, paid |-> TRUE, status |-> "paid",
     created_at |-> << StartHour - HoursPerDay >>, amount |-> << 20 >>,
     product_id |-> "P1", product_name |-> "Mod"]

\* the storefront's answer to GET /shops/{shopId}/invoices/{id}
StorefrontResponse(id, transportOk) ==
    IF ~transportOk THEN [status |-> 0, data |-> NoInvoice]
    ELSE IF id \in CatalogueIds THEN [status |-> 200, data |-> CatalogueInvoice(id)]
    ELSE [status |-> 404, data |-> NoInvoice]

\* The rate-limit action kind and limit each entry point passes to
\* checkRateLimit.
ActionKind(entry) ==
    IF entry = "command" THEN "redeem" ELSE "license_redemption"

MaxAttempts(entry) ==
    IF entry = "command" THEN redemptionsPerDay ELSE 1

ActionKinds == { ActionKind(e) : e \in Entries }

\* The audit action an entry point logs at an exit ("" when it logs none).
AuditKind(entry, exit) ==
    IF entry = "command"
    THEN CASE exit = "VERIFICATION_FAILED" -> "redemption_failed"
           [] exit = "ISSUANCE_FAILED"     -> "license_creation_failed"
           [] exit = "SUCCESS"             -> "redemption_success"
           [] exit = "UNEXPECTED_ERROR"    -> "redemption_error"
           [] OTHER                        -> ""
    ELSE CASE exit = "SUCCESS"             -> "redemption_success_modal"
           [] OTHER                        -> ""

---------------------------------------------------------------------------
(* Ledger (src/src/api/database.js) *)

NoText == << 0, " ", 0 >>

NoRow ==
    [present |-> FALSE, attempts |-> 0, first_attempt |-> NoText,
     last_attempt |-> NoText, reset_after |-> NoText]

\* mutant of isInvoiceRedeemed: the existence check finds nothing
isInvoiceRedeemedNever(invoiceId) ==
    FALSE

\* SELECT id FROM redeemed_invoices WHERE invoice_id = ?
isInvoiceRedeemed(invoiceId) ==
    \E r \in redeemed_invoices : r.invoice_id = invoiceId

\* mutant of UniqueViolation: the column carries no UNIQUE constraint
UniqueViolationNever(invoiceId) ==
    FALSE

\* invoice_id TEXT UNIQUE NOT NULL: the INSERT of this id is refused
UniqueViolation(invoiceId) ==
    \E r \in redeemed_invoices : r.invoice_id = invoiceId

\* the row markInvoiceRedeemed inserts (redeemed_at DEFAULT CURRENT_TIMESTAMP)
RedemptionRow(invoiceId, userId, licenseKey, nowH) ==
    [invoice_id |-> invoiceId, discord_user_id |-> userId,
     license_key |-> licenseKey, redeemed_at |-> SqliteText(nowH)]

\* the columns getUserLicenses selects (of those the model keeps)
LicenseColumns(r) ==
    [invoice_id |-> r.invoice_id, license_key |-> r.license_key,
     redeemed_at |-> r.redeemed_at]

\* the orders in which a set of rows can be listed without repetition
Listings(rows) ==
    { s \in [1 .. Cardinality(rows) -> rows] :
        \A i, j \in 1 .. Cardinality(rows) : i # j => s[i] # s[j] }

\* mutant of getUserLicenses: ORDER BY redeemed_at ASC
getUserLicensesOldestFirst(userId) ==
    LET rows == { LicenseColumns(r) :
                    r \in { x \in redeemed_invoices : x.discord_user_id = userId } }
    IN
    { s \in Listings(rows) :
        \A i, j \in 1 .. Len(s) :
            i < j => ~TextGreater(s[i].redeemed_at, s[j].redeemed_at) }

\* SELECT ... FROM redeemed_invoices WHERE discord_user_id = ? ORDER BY
\* redeemed_at DESC: the results the query can return (rows with equal
\* redeemed_at come in an order SQL leaves open)
getUserLicenses(userId) ==
    LET rows == { LicenseColumns(r) :
                    r \in { x \in redeemed_invoices : x.discord_user_id = userId } }
    IN
    { s \in Listings(rows) :
        \A i, j \in 1 .. Len(s) :
            i < j => ~TextGreater(s[j].redeemed_at, s[i].redeemed_at) }

\* mutant of RateLimitSelectRow: one counter per user, whatever the action
RateLimitSelectRowPerUser(userId, action, cutoff) ==
    LET row == rate_limits[<<userId, "redeem">>] IN
    IF row.present /\ TextGreater(row.first_attempt, cutoff)
    THEN row
    ELSE NoRow

\* timeWindow.toISOString() with timeWindow = new Date(Date.now() -
\* timeWindowHours * 3600000): computed when checkRateLimit is called
RateLimitCutoff(timeWindowHours, nowH) ==
    IsoText(nowH - timeWindowHours)

\* SELECT * FROM rate_limits WHERE user_id = ? AND action = ? AND first_attempt > ?
\* executed on the table as it is now, with the cutoff bound at the call
RateLimitSelectRow(userId, action, cutoff) ==
    LET row == rate_limits[<<userId, action>>] IN
    IF row.present /\ TextGreater(row.first_attempt, cutoff)
    THEN row
    ELSE NoRow

\* INSERT OR REPLACE INTO rate_limits ... VALUES (?, ?, 1, CURRENT_TIMESTAMP, CURRENT_TIMESTAMP, ?)
\* `resetAfter` is the parameter the caller computed when it issued the
\* statement, `nowH` the clock when SQLite executes it.
RateLimitInsertOrReplace(userId, action, resetAfter, nowH) ==
    [rate_limits EXCEPT ![<<userId, action>>] =
        [present |-> TRUE, attempts |-> 1, first_attempt |-> SqliteText(nowH),
         last_attempt |-> SqliteText(nowH),
         reset_after |-> resetAfter]]

\* UPDATE rate_limits SET attempts = attempts + 1, last_attempt = CURRENT_TIMESTAMP WHERE ...
RateLimitIncrement(userId, action, nowH) ==
    IF rate_limits[<<userId, action>>].present
    THEN [rate_limits EXCEPT ![<<userId, action>>].attempts = @ + 1,
                             ![<<userId, action>>].last_attempt = SqliteText(nowH)]
    ELSE rate_limits

\* what checkRateLimit returns for the row its SELECT read
RateLimitResult(row, maxAttempts, timeWindowHours, nowH) ==
    IF ~row.present
    THEN [allowed |-> TRUE, attempts |-> 1, maxAttempts |-> maxAttempts,
          resetAfter |-> nowH + timeWindowHours]
    ELSE IF row.attempts >= maxAttempts
    THEN [allowed |-> FALSE, attempts |-> row.attempts, maxAttempts |-> maxAttempts,
          resetAfter |-> ParseDate(row.reset_after)]
    ELSE [allowed |-> TRUE, attempts |-> row.attempts + 1, maxAttempts |-> maxAttempts,
          resetAfter |-> ParseDate(row.reset_after)]

NoRateLimitResult ==
    [allowed |-> FALSE, attempts |-> 0, maxAttempts |-> 0, resetAfter |-> 0]

\* logAction: the INSERT into audit_log; a failed write is swallowed
logAction(userId, action, data, writeOk) ==
    IF writeOk /\ action # ""
    THEN audit_log (+) SetToBag({[user_id |-> userId, action |-> action, data |-> data]})
    ELSE audit_log

\* mutant of LogActionRaises: logAction rethrows the error of a failed write
LogActionRethrows(writeOk) ==
    ~writeOk

\* Whether logAction rejects: its catch block logs the error of a failed
\* write and does not rethrow it.
LogActionRaises(writeOk) ==
    FALSE

\* The data of an audit entry: the invoice id, the license key (0 when the
\* entry carries none: only the success entries carry it) and the error text.
AuditData(invoiceId, licenseKey, error) ==
    [invoiceId |-> invoiceId, licenseKey |-> licenseKey, error |-> error]

---------------------------------------------------------------------------
(* Invocation state *)

NoRetrieval    == [count |-> 0, userId |-> "", entry |-> "", pc |-> "idle",
                   rows |-> <<>>, failed |-> FALSE]
NoReq          == [userId |-> "", invoiceId |-> <<>>, entry |-> "", action |-> "",
                   maxAttempts |-> 0, timeWindowHours |-> 0]
NoVerification == [valid |-> FALSE, reason |-> "", error |-> "", invoiceData |-> NoInvoice]
NoLicense      == [success |-> FALSE, licenseKey |-> 0, error |-> ""]

Outcomes ==
    { "RATE_LIMITED", "ALREADY_REDEEMED", "VERIFICATION_FAILED",
      "ISSUANCE_FAILED", "SUCCESS", "UNEXPECTED_ERROR" }

\* an environment call (storage, transport, issuer, Discord) may fail while
\* the fault budget lasts
Fails(ok) == IF ok THEN 0 ELSE 1

CallOutcomes == IF faults < MaxFaults THEN { TRUE, FALSE } ELSE { TRUE }

\* the tables as createTables leaves them
EmptyLedger ==
    /\ ticks = 0
    /\ faults = 0
    /\ issued = 0
    /\ rate_limits = [k \in Users \X ActionKinds |-> NoRow]
    /\ redeemed_invoices = {}
    /\ audit_log = EmptyBag

\* no handler has run: its locals other than the interaction and the
\* verification result
NoLocals ==
    /\ pc = [t \in Tasks |-> "idle"]
    /\ cutoffTime = [t \in Tasks |-> NoText]
    /\ rlRow = [t \in Tasks |-> NoRow]
    /\ resetAfterParam = [t \in Tasks |-> NoText]
    /\ rateLimitResult = [t \in Tasks |-> NoRateLimitResult]
    /\ alreadyRedeemed = [t \in Tasks |-> FALSE]
    /\ licenseResult = [t \in Tasks |-> NoLicense]
    /\ err = [t \in Tasks |-> ""]
    /\ outcome = [t \in Tasks |-> ""]
    /\ lookup = [t \in Tasks |-> <<>>]
    /\ response = [t \in Tasks |-> NoResponse]
    /\ startedAt = [t \in Tasks |-> 0]
    /\ before = [t \in Tasks |-> {}]
    /\ calls = 0
    /\ userLicenses = NoRetrieval

\* empty tables and no invocation under way
EmptyState ==
    /\ EmptyLedger
    /\ NoLocals
    /\ req = [t \in Tasks |-> NoReq]
    /\ verification = [t \in Tasks |-> NoVerification]

Init ==
    /\ now = StartHour
    /\ EmptyState

---------------------------------------------------------------------------
(* The handlers: execute of the /redeem command (config.js:294-519) and    *)
(* handleModalSubmit (part_002:194-342).  They run the same stages and     *)
(* differ in the rate-limit action kind and in what they audit-log.        *)

\* The handler shows `out`: the reply of that exit is sent (editReply).
\* `error` is the error its catch block caught ("" when it returned normally).
\* Where the entry point logs the exit, the logAction call follows the reply
\* as a further await (position "audit"); otherwise the handler has ended.
Exit(t, out, error) ==
    /\ pc' = [pc EXCEPT ![t] =
                 IF AuditKind(req[t].entry, out) = "" THEN "done" ELSE "audit"]
    /\ outcome' = [outcome EXCEPT ![t] = out]
    /\ err' = [err EXCEPT ![t] = error]
    /\ UNCHANGED audit_log

\* The handler goes on to its next await.
Continue(t, next) ==
    /\ pc' = [pc EXCEPT ![t] = next]
    /\ UNCHANGED <<outcome, err, audit_log>>

\* mutant of Caught: the handlers' awaits stand outside any try block
CaughtNowhere(entry, stage) ==
    FALSE

\* Whether the await of a stage stands inside the handler's try block: in both
\* handlers the try opens before deferReply and closes after the success
\* audit entry, so every stage is covered.
Caught(entry, stage) ==
    stage \in { "rate_limit_select", "rate_limit_write", "duplicate_check",
                "verify", "issue", "record" }

\* A call of a stage rejects with `error`.  Inside the try, the catch block
\* shows the generic error reply; outside it the rejection would leave the
\* handler, which then ends without having shown an outcome.
Throw(t, stage, error) ==
    IF Caught(req[t].entry, stage)
    THEN Exit(t, "UNEXPECTED_ERROR", error)
    ELSE /\ pc' = [pc EXCEPT ![t] = "done"]
         /\ err' = [err EXCEPT ![t] = error]
         /\ UNCHANGED <<outcome, audit_log>>

\* The error text the audit entry of an exit carries: the verifier's error
\* for 'redemption_failed', the issuer's for 'license_creation_failed', the
\* caught error's message for 'redemption_error'.
AuditError(t) ==
    CASE outcome[t] = "VERIFICATION_FAILED" -> verification[t].error
      [] outcome[t] = "ISSUANCE_FAILED"     -> licenseResult[t].error
      [] outcome[t] = "UNEXPECTED_ERROR"    -> err[t]
      [] OTHER                              -> ""

\* The logAction call that follows the reply of an exit.  It stands inside
\* the try block, so a logAction that rejected would end the handler with the
\* generic error reply.
Audit(t, writeOk) ==
    /\ pc[t] = "audit"
    /\ faults' = faults + Fails(writeOk)
    /\ audit_log' = logAction(req[t].userId, AuditKind(req[t].entry, outcome[t]),
                              AuditData(req[t].invoiceId,
                                        IF outcome[t] = "SUCCESS"
                                        THEN licenseResult[t].licenseKey ELSE 0,
                                        AuditError(t)),
                              writeOk)
    /\ pc' = [pc EXCEPT ![t] = "done"]
    /\ outcome' = [outcome EXCEPT ![t] =
                       IF LogActionRaises(writeOk) THEN "UNEXPECTED_ERROR" ELSE @]
    /\ err' = [err EXCEPT ![t] =
                   IF LogActionRaises(writeOk) THEN "AUDIT_ERROR" ELSE @]
    /\ UNCHANGED userLicenses
    /\ UNCHANGED <<now, ticks, issued, rate_limits, redeemed_invoices>>
    /\ UNCHANGED <<req, cutoffTime, rlRow, resetAfterParam, rateLimitResult, alreadyRedeemed, verification,
                   licenseResult, histVars>>

\* Users are interchangeable: a requester not seen before is the first unused
\* name (U1, then U2).
NextUsers ==
    LET seen == { req[t].userId : t \in { x \in Tasks : pc[x] # "idle" } } IN
    IF "U1" \notin seen THEN { "U1" } ELSE Users

\* The interaction of an entry point: the requester, the invoice id as typed
\* and the arguments a redeem entry point passes to checkRateLimit.
Interaction(userId, invoiceId, entry) ==
    IF entry \in Entries
    THEN [userId |-> userId, invoiceId |-> invoiceId, entry |-> entry,
          action |-> ActionKind(entry), maxAttempts |-> MaxAttempts(entry),
          timeWindowHours |-> RateWindowHours]
    ELSE [userId |-> userId, invoiceId |-> invoiceId, entry |-> entry,
          action |-> "", maxAttempts |-> 0, timeWindowHours |-> 0]

\* An interaction arrives.  A slash command (/redeem, /panel) comes to
\* handleSlashCommand, which calls logAction('command_used'): the INSERT is
\* issued and awaited.  A modal submission comes to handleModalSubmit, which
\* logs nothing on entry and sends its deferReply.
Start(t, userId, invoiceId, entry) ==
    /\ pc[t] = "idle"
    /\ IF t = 1 THEN TRUE ELSE pc[t - 1] # "idle"
    /\ userId \in NextUsers
    /\ invoiceId \in (IF entry = PanelEntry THEN { NoId } ELSE RawIds)
    /\ req' = [req EXCEPT ![t] = Interaction(userId, invoiceId, entry)]
    /\ pc' = [pc EXCEPT ![t] =
                 IF entry \in SlashCommands THEN "command_used" ELSE "defer"]
    /\ startedAt' = [startedAt EXCEPT ![t] = now]
    /\ before' = [before EXCEPT ![t] = { u \in Tasks : pc[u] = "done" }]
    /\ UNCHANGED userLicenses
    /\ UNCHANGED <<envVars, dbVars>>
    /\ UNCHANGED <<cutoffTime, rlRow, resetAfterParam, rateLimitResult, alreadyRedeemed,
                   verification, licenseResult, err, outcome>>
    /\ UNCHANGED <<lookup, response, calls>>

\* SQLite executes the INSERT of the 'command_used' entry (a failed write is
\* swallowed by logAction) and handleSlashCommand goes on to the command's
\* execute: /redeem sends its deferReply, /panel its reply with the panel.
\* A logAction that rejected would take handleSlashCommand to its catch
\* block, which logs 'command_error'.
CommandUsed(t, writeOk) ==
    /\ pc[t] = "command_used"
    /\ faults' = faults + Fails(writeOk)
    /\ audit_log' = logAction(req[t].userId, "command_used",
                              AuditData(req[t].invoiceId, 0, ""), writeOk)
    /\ pc' = [pc EXCEPT ![t] =
                 IF LogActionRaises(writeOk) THEN "command_error"
                 ELSE IF req[t].entry = PanelEntry THEN "panel_reply"
                 ELSE "defer"]
    /\ err' = [err EXCEPT ![t] = IF LogActionRaises(writeOk) THEN "AUDIT_ERROR" ELSE @]
    /\ UNCHANGED userLicenses
    /\ UNCHANGED <<now, ticks, issued, rate_limits, redeemed_invoices>>
    /\ UNCHANGED <<req, cutoffTime, rlRow, resetAfterParam, rateLimitResult, alreadyRedeemed,
                   verification, licenseResult, outcome, histVars>>

\* deferReply has returned.  The redeem handler calls checkRateLimit, which
\* computes the cutoff from the clock now and issues its SELECT.
Deferred(t) ==
    /\ pc[t] = "defer"
    /\ cutoffTime' = [cutoffTime EXCEPT ![t] =
                         RateLimitCutoff(req[t].timeWindowHours, now)]
    /\ UNCHANGED userLicenses
    /\ UNCHANGED <<envVars, rate_limits, redeemed_invoices>>
    /\ UNCHANGED <<req, rlRow, resetAfterParam, rateLimitResult, alreadyRedeemed,
                   verification, licenseResult, histVars>>
    /\ Continue(t, "rate_limit_select")

\* Discord answers /panel's interaction.reply.  When it accepts, execute and
\* handleSlashCommand return.  When it rejects the interaction (an
\* interaction Discord no longer knows rejects every reply to it), the reply
\* in execute's catch block rejects as well, execute rejects, and
\* handleSlashCommand's catch block calls logAction('command_error').
PanelReply(t, discordOk) ==
    /\ pc[t] = "panel_reply"
    /\ faults' = faults + Fails(discordOk)
    /\ pc' = [pc EXCEPT ![t] = IF discordOk THEN "command_done" ELSE "command_error"]
    /\ err' = [err EXCEPT ![t] = IF discordOk THEN @ ELSE "DISCORD_ERROR"]
    /\ UNCHANGED userLicenses
    /\ UNCHANGED <<now, ticks, issued, dbVars>>
    /\ UNCHANGED <<req, cutoffTime, rlRow, resetAfterParam, rateLimitResult, alreadyRedeemed,
                   verification, licenseResult, outcome, histVars>>

\* SQLite executes the INSERT of the 'command_error' entry, which carries the
\* error's message.  handleSlashCommand then tries to tell the user (inside
\* a try of its own) and returns.
CommandError(t, writeOk) ==
    /\ pc[t] = "command_error"
    /\ faults' = faults + Fails(writeOk)
    /\ audit_log' = logAction(req[t].userId, "command_error",
                              AuditData(req[t].invoiceId, 0, err[t]), writeOk)
    /\ pc' = [pc EXCEPT ![t] = "command_done"]
    /\ UNCHANGED userLicenses
    /\ UNCHANGED <<now, ticks, issued, rate_limits, redeemed_invoices>>
    /\ UNCHANGED <<req, cutoffTime, rlRow, resetAfterParam, rateLimitResult, alreadyRedeemed,
                   verification, licenseResult, err, outcome, histVars>>

\* checkRateLimit returns or throws: its locals are gone.
RateLimitReturns(t) ==
    /\ cutoffTime' = [cutoffTime EXCEPT ![t] = NoText]
    /\ rlRow' = [rlRow EXCEPT ![t] = NoRow]
    /\ resetAfterParam' = [resetAfterParam EXCEPT ![t] = NoText]

\* checkRateLimit, first await: SQLite executes the SELECT, with the cutoff
\* that was bound when the call was made, on the table as it is now.
RateLimitSelect(t, dbOk) ==
    /\ pc[t] = "rate_limit_select"
    /\ faults' = faults + Fails(dbOk)
    /\ UNCHANGED userLicenses
    /\ UNCHANGED <<now, ticks, issued, rate_limits, redeemed_invoices>>
    /\ UNCHANGED <<req, rateLimitResult, alreadyRedeemed, verification, licenseResult,
                   histVars>>
    /\ IF ~dbOk
       THEN /\ RateLimitReturns(t)
            /\ Throw(t, "rate_limit_select", "SQLITE_ERROR")
       ELSE /\ rlRow' = [rlRow EXCEPT ![t] =
                  RateLimitSelectRow(req[t].userId, req[t].action, cutoffTime[t])]
            /\ UNCHANGED <<cutoffTime, resetAfterParam>>
            /\ Continue(t, "rate_limit_selected")

\* mutant of RateLimitSelected: a denied call is counted as an attempt too
RateLimitSelectedCountingDenials(t) ==
    LET row    == rlRow[t]
        result == RateLimitResult(row, req[t].maxAttempts, req[t].timeWindowHours, now)
    IN
    /\ pc[t] = "rate_limit_selected"
    /\ UNCHANGED userLicenses
    /\ UNCHANGED <<now, ticks, faults, issued, redeemed_invoices>>
    /\ UNCHANGED <<req, alreadyRedeemed, verification, licenseResult, histVars>>
    /\ IF row.present /\ ~result.allowed
       THEN /\ rateLimitResult' = [rateLimitResult EXCEPT ![t] = result]
            /\ RateLimitReturns(t)
            /\ rate_limits' = RateLimitIncrement(req[t].userId, req[t].action, now)
            /\ Exit(t, "RATE_LIMITED", "")
       ELSE /\ UNCHANGED <<rateLimitResult, rate_limits, cutoffTime, rlRow>>
            /\ resetAfterParam' = [resetAfterParam EXCEPT ![t] =
                  IF row.present THEN NoText
                  ELSE IsoText(now + req[t].timeWindowHours)]
            /\ Continue(t, "rate_limit_write")

\* checkRateLimit resumes with the row the SELECT read.  A row whose attempts
\* reached the limit makes it return allowed = false at once, and the handler
\* shows the rate-limit reply; otherwise it issues the INSERT OR REPLACE (no
\* row read), whose reset_after parameter it computes from the clock now, or
\* the UPDATE.
RateLimitSelected(t) ==
    LET row    == rlRow[t]
        result == RateLimitResult(row, req[t].maxAttempts, req[t].timeWindowHours, now)
    IN
    /\ pc[t] = "rate_limit_selected"
    /\ UNCHANGED userLicenses
    /\ UNCHANGED <<now, ticks, faults, issued, rate_limits, redeemed_invoices>>
    /\ UNCHANGED <<req, alreadyRedeemed, verification, licenseResult, histVars>>
    /\ IF row.present /\ ~result.allowed
       THEN /\ rateLimitResult' = [rateLimitResult EXCEPT ![t] = result]
            /\ RateLimitReturns(t)
            /\ Exit(t, "RATE_LIMITED", "")
       ELSE /\ UNCHANGED <<rateLimitResult, cutoffTime, rlRow>>
            /\ resetAfterParam' = [resetAfterParam EXCEPT ![t] =
                  IF row.present THEN NoText
                  ELSE IsoText(now + req[t].timeWindowHours)]
            /\ Continue(t, "rate_limit_write")

\* checkRateLimit, second await: SQLite executes the INSERT OR REPLACE or the
\* UPDATE; CURRENT_TIMESTAMP is the clock now.
RateLimitWrite(t, dbOk) ==
    /\ pc[t] = "rate_limit_write"
    /\ faults' = faults + Fails(dbOk)
    /\ UNCHANGED userLicenses
    /\ UNCHANGED <<now, ticks, issued, redeemed_invoices>>
    /\ UNCHANGED <<req, rateLimitResult, alreadyRedeemed, verification, licenseResult,
                   histVars>>
    /\ IF ~dbOk
       THEN /\ UNCHANGED rate_limits
            /\ RateLimitReturns(t)
            /\ Throw(t, "rate_limit_write", "SQLITE_ERROR")
       ELSE /\ UNCHANGED <<cutoffTime, rlRow, resetAfterParam>>
            /\ rate_limits' =
                  IF ~rlRow[t].present
                  THEN RateLimitInsertOrReplace(req[t].userId, req[t].action,
                                                resetAfterParam[t], now)
                  ELSE RateLimitIncrement(req[t].userId, req[t].action, now)
            /\ Continue(t, "rate_limit_written")

\* checkRateLimit resumes after the write and returns allowed = true; the
\* resetAfter of a fresh row is computed from the clock now.  The handler
\* goes on to ask the ledger whether the invoice is redeemed.
RateLimitWritten(t) ==
    /\ pc[t] = "rate_limit_written"
    /\ rateLimitResult' = [rateLimitResult EXCEPT ![t] =
          RateLimitResult(rlRow[t], req[t].maxAttempts, req[t].timeWindowHours, now)]
    /\ UNCHANGED userLicenses
    /\ UNCHANGED <<now, ticks, faults, issued, rate_limits, redeemed_invoices>>
    /\ RateLimitReturns(t)
    /\ UNCHANGED <<req, alreadyRedeemed, verification, licenseResult, histVars>>
    /\ Continue(t, "duplicate_check")

\* isInvoiceRedeemed with the invoice id as the user typed it: SQLite
\* executes the SELECT on the table as it is now, or the statement fails.
DuplicateCheck(t, dbOk) ==
    /\ pc[t] = "duplicate_check"
    /\ faults' = faults + Fails(dbOk)
    /\ UNCHANGED userLicenses
    /\ UNCHANGED <<now, ticks, issued, rate_limits, redeemed_invoices>>
    /\ UNCHANGED <<req, cutoffTime, rlRow, resetAfterParam, rateLimitResult,
                   verification, licenseResult, histVars>>
    /\ IF ~dbOk
       THEN /\ UNCHANGED alreadyRedeemed
            /\ Throw(t, "duplicate_check", "SQLITE_ERROR")
       ELSE /\ alreadyRedeemed' = [alreadyRedeemed EXCEPT ![t] =
                  isInvoiceRedeemed(req[t].invoiceId)]
            /\ Continue(t, "duplicate_checked")

\* The handler calls verifyInvoice: the id is sanitized and the GET is sent.
\* An id that fails the sanitizing throws inside verifyInvoice's try block,
\* which returns from its catch block without a request, and the handler
\* shows the verification failure.
VerifyInvoiceCalled(t) ==
    LET requests == StorefrontRequests(req[t].invoiceId) IN
    /\ lookup' = [lookup EXCEPT ![t] = requests]
    /\ IF requests = <<>>
       THEN /\ verification' = [verification EXCEPT ![t] =
                  verifyInvoice(req[t].invoiceId, NoResponse, now)]
            /\ Exit(t, "VERIFICATION_FAILED", "")
       ELSE /\ UNCHANGED verification
            /\ Continue(t, "verify")

\* mutant of DuplicateChecked: the handler goes on to verification whatever
\* isInvoiceRedeemed returned
DuplicateCheckedIgnoringResult(t) ==
    /\ pc[t] = "duplicate_checked"
    /\ UNCHANGED userLicenses
    /\ UNCHANGED <<envVars, rate_limits, redeemed_invoices>>
    /\ UNCHANGED <<req, cutoffTime, rlRow, resetAfterParam, rateLimitResult, alreadyRedeemed,
                   licenseResult>>
    /\ UNCHANGED <<response, startedAt, before, calls>>
    /\ IF req[t].entry = "command"
       THEN /\ UNCHANGED <<lookup, verification>>
            /\ Continue(t, "progress")
       ELSE VerifyInvoiceCalled(t)

\* The handler resumes with what isInvoiceRedeemed returned.  For an invoice
\* found redeemed it shows that reply and returns.  Otherwise the /redeem
\* command sends its progress reply (editReply) and awaits it, and the modal
\* calls verifyInvoice at once.
DuplicateChecked(t) ==
    /\ pc[t] = "duplicate_checked"
    /\ UNCHANGED userLicenses
    /\ UNCHANGED <<envVars, rate_limits, redeemed_invoices>>
    /\ UNCHANGED <<req, cutoffTime, rlRow, resetAfterParam, rateLimitResult, alreadyRedeemed,
                   licenseResult>>
    /\ UNCHANGED <<response, startedAt, before, calls>>
    /\ IF alreadyRedeemed[t]
       THEN /\ UNCHANGED <<lookup, verification>>
            /\ Exit(t, "ALREADY_REDEEMED", "")
       ELSE IF req[t].entry = "command"
       THEN /\ UNCHANGED <<lookup, verification>>
            /\ Continue(t, "progress")
       ELSE VerifyInvoiceCalled(t)

\* The progress reply of the /redeem command has returned, and the handler
\* calls verifyInvoice.
Progress(t) ==
    /\ pc[t] = "progress"
    /\ UNCHANGED userLicenses
    /\ UNCHANGED <<envVars, rate_limits, redeemed_invoices>>
    /\ UNCHANGED <<req, cutoffTime, rlRow, resetAfterParam, rateLimitResult, alreadyRedeemed,
                   licenseResult>>
    /\ UNCHANGED <<response, startedAt, before, calls>>
    /\ VerifyInvoiceCalled(t)

\* The storefront answers the GET verifyInvoice sent (or the request fails):
\* verifyInvoice goes on after its await, validating the invoice against the
\* clock now, and the handler shows the failure or goes on to the issuer.
Verify(t, transportOk) ==
    LET http   == StorefrontResponse(lookup[t][1], transportOk)
        result == verifyInvoice(req[t].invoiceId, http, now)
    IN
    /\ pc[t] = "verify"
    /\ faults' = faults + Fails(transportOk)
    /\ verification' = [verification EXCEPT ![t] = result]
    /\ response' = [response EXCEPT ![t] = http]
    /\ UNCHANGED userLicenses
    /\ UNCHANGED <<now, ticks, issued, rate_limits, redeemed_invoices>>
    /\ UNCHANGED <<req, cutoffTime, rlRow, resetAfterParam, rateLimitResult, alreadyRedeemed,
                   licenseResult, lookup, startedAt, before, calls>>
    /\ IF ~result.valid
       THEN Exit(t, "VERIFICATION_FAILED", "")
       ELSE Continue(t, "issue")

\* keyauth.createLicenseForRedemption: mints a fresh key or fails
createLicenseForRedemption(issuerOk) ==
    IF issuerOk
    THEN [success |-> TRUE, licenseKey |-> issued + 1, error |-> ""]
    ELSE [success |-> FALSE, licenseKey |-> 0, error |-> "KEYAUTH_ERROR"]

\* mutant of Issue: the invoice is marked redeemed before the key is issued,
\* so a failed issuance leaves its row behind
IssueMarkingInvoice(t, issuerOk) ==
    LET result == createLicenseForRedemption(issuerOk) IN
    /\ pc[t] = "issue"
    /\ faults' = faults + Fails(issuerOk)
    /\ licenseResult' = [licenseResult EXCEPT ![t] = result]
    /\ issued' = IF result.success THEN issued + 1 ELSE issued
    /\ UNCHANGED userLicenses
    /\ UNCHANGED <<now, ticks, rate_limits>>
    /\ UNCHANGED <<req, cutoffTime, rlRow, resetAfterParam, rateLimitResult, alreadyRedeemed, verification, histVars>>
    /\ IF ~result.success
       THEN /\ redeemed_invoices' = redeemed_invoices \cup
                  { RedemptionRow(req[t].invoiceId, req[t].userId, 0, now) }
            /\ Exit(t, "ISSUANCE_FAILED", "")
       ELSE /\ UNCHANGED redeemed_invoices
            /\ Continue(t, "record")

Issue(t, issuerOk) ==
    LET result == createLicenseForRedemption(issuerOk) IN
    /\ pc[t] = "issue"
    /\ faults' = faults + Fails(issuerOk)
    /\ licenseResult' = [licenseResult EXCEPT ![t] = result]
    /\ issued' = IF result.success THEN issued + 1 ELSE issued
    /\ UNCHANGED userLicenses
    /\ UNCHANGED <<now, ticks, rate_limits, redeemed_invoices>>
    /\ UNCHANGED <<req, cutoffTime, rlRow, resetAfterParam, rateLimitResult, alreadyRedeemed, verification, histVars>>
    /\ IF ~result.success
       THEN Exit(t, "ISSUANCE_FAILED", "")
       ELSE Continue(t, "record")

\* keyauth.createLicenseForRedemption rejects instead of returning a result
IssueThrows(t) ==
    /\ pc[t] = "issue"
    /\ faults < MaxFaults
    /\ faults' = faults + 1
    /\ UNCHANGED userLicenses
    /\ UNCHANGED <<now, ticks, issued, rate_limits, redeemed_invoices>>
    /\ UNCHANGED <<req, cutoffTime, rlRow, resetAfterParam, rateLimitResult, alreadyRedeemed, verification,
                   licenseResult, histVars>>
    /\ Throw(t, "issue", "KEYAUTH_EXCEPTION")

\* mutant of Record: a refused INSERT is ignored and the handler goes on to
\* show the key
RecordIgnoringConflict(t, dbOk) ==
    /\ pc[t] = "record"
    /\ faults' = faults + Fails(dbOk)
    /\ UNCHANGED userLicenses
    /\ UNCHANGED <<now, ticks, issued, rate_limits>>
    /\ UNCHANGED <<req, cutoffTime, rlRow, resetAfterParam, rateLimitResult, alreadyRedeemed, verification,
                   licenseResult, histVars>>
    /\ IF ~dbOk
       THEN /\ UNCHANGED redeemed_invoices
            /\ Throw(t, "record", "SQLITE_ERROR")
       ELSE /\ redeemed_invoices' =
                  IF UniqueViolation(req[t].invoiceId)
                  THEN redeemed_invoices
                  ELSE redeemed_invoices \cup
                         { RedemptionRow(req[t].invoiceId, req[t].userId,
                                         licenseResult[t].licenseKey, now) }
            /\ Continue(t, "reply")

\* mutant of Record: INSERT OR REPLACE, so a second insert for an invoice id
\* takes the place of the stored row
RecordReplacing(t, dbOk) ==
    /\ pc[t] = "record"
    /\ faults' = faults + Fails(dbOk)
    /\ UNCHANGED userLicenses
    /\ UNCHANGED <<now, ticks, issued, rate_limits>>
    /\ UNCHANGED <<req, cutoffTime, rlRow, resetAfterParam, rateLimitResult, alreadyRedeemed, verification,
                   licenseResult, histVars>>
    /\ IF ~dbOk
       THEN /\ UNCHANGED redeemed_invoices
            /\ Throw(t, "record", "SQLITE_ERROR")
       ELSE /\ redeemed_invoices' =
                  { r \in redeemed_invoices : r.invoice_id # req[t].invoiceId } \cup
                  { RedemptionRow(req[t].invoiceId, req[t].userId,
                                  licenseResult[t].licenseKey, now) }
            /\ Continue(t, "reply")

\* markInvoiceRedeemed: the INSERT; the UNIQUE constraint or a storage fault
\* makes it throw into the handler's catch
Record(t, dbOk) ==
    /\ pc[t] = "record"
    /\ faults' = faults + Fails(dbOk)
    /\ UNCHANGED userLicenses
    /\ UNCHANGED <<now, ticks, issued, rate_limits>>
    /\ UNCHANGED <<req, cutoffTime, rlRow, resetAfterParam, rateLimitResult, alreadyRedeemed, verification,
                   licenseResult, histVars>>
    /\ IF ~dbOk
       THEN /\ UNCHANGED redeemed_invoices
            /\ Throw(t, "record", "SQLITE_ERROR")
       ELSE IF UniqueViolation(req[t].invoiceId)
       THEN /\ UNCHANGED redeemed_invoices
            /\ Throw(t, "record", "SQLITE_CONSTRAINT")
       ELSE /\ redeemed_invoices' = redeemed_invoices \cup
                  { RedemptionRow(req[t].invoiceId, req[t].userId,
                                  licenseResult[t].licenseKey, now) }
            /\ Continue(t, "reply")

\* mutant of Reply: the success reply never settles
ReplyPending(t) ==
    /\ pc[t] = "reply"
    /\ UNCHANGED vars

\* the success embed with the license key is shown
Reply(t) ==
    /\ pc[t] = "reply"
    /\ UNCHANGED userLicenses
    /\ UNCHANGED <<now, ticks, faults, issued, rate_limits, redeemed_invoices>>
    /\ UNCHANGED <<req, cutoffTime, rlRow, resetAfterParam, rateLimitResult, alreadyRedeemed, verification,
                   licenseResult, histVars>>
    /\ Exit(t, "SUCCESS", "")

\* the clock shows 23:00 UTC: the next hour boundary is a midnight, where
\* the date of the timestamp texts changes
BeforeMidnight == now % HoursPerDay = HoursPerDay - 1

\* The clock advances by an hour or by a day.  An invocation lasts seconds
\* (every remote call has a 10 s timeout), so a whole day passes only between
\* invocations, while an hour boundary may fall inside one; the hour
\* boundaries taken are the midnights.
TickSteps == { 1, HoursPerDay }

Tick(d) ==
    /\ ticks < MaxTicks
    /\ IF d = 1 THEN BeforeMidnight
       ELSE \A t \in Tasks : pc[t] \in { "idle", "done", "command_done" }
    /\ now' = now + d
    /\ ticks' = ticks + 1
    /\ UNCHANGED userLicenses
    /\ UNCHANGED <<faults, issued, dbVars, taskVars, histVars>>

\* Spec: storage, transport and issuer calls and /panel's reply may fail
\* within the fault budget; audit writes succeed.
Next ==
    \/ \E t \in Tasks, u \in Users, i \in RawIds, e \in Entries : Start(t, u, i, e)
    \/ \E t \in Tasks, u \in Users : Start(t, u, NoId, PanelEntry)
    \/ \E t \in Tasks : CommandUsed(t, TRUE)
    \/ \E t \in Tasks : Deferred(t)
    \/ \E t \in Tasks, ok \in CallOutcomes : PanelReply(t, ok)
    \/ \E t \in Tasks : CommandError(t, TRUE)
    \/ \E t \in Tasks, ok \in CallOutcomes : RateLimitSelect(t, ok)
    \/ \E t \in Tasks : RateLimitSelected(t)
    \/ \E t \in Tasks, ok \in CallOutcomes : RateLimitWrite(t, ok)
    \/ \E t \in Tasks : RateLimitWritten(t)
    \/ \E t \in Tasks, ok \in CallOutcomes : DuplicateCheck(t, ok)
    \/ \E t \in Tasks : DuplicateChecked(t)
    \/ \E t \in Tasks : Progress(t)
    \/ \E t \in Tasks, ok \in CallOutcomes : Verify(t, ok)
    \/ \E t \in Tasks, ok \in CallOutcomes : Issue(t, ok)
    \/ \E t \in Tasks : IssueThrows(t)
    \/ \E t \in Tasks, ok \in CallOutcomes : Record(t, ok)
    \/ \E t \in Tasks : Reply(t)
    \/ \E t \in Tasks : Audit(t, TRUE)
    \/ \E d \in TickSteps : Tick(d)

Spec == Init /\ [][Next]_vars

---------------------------------------------------------------------------
(* checkRateLimit called on its own (database.js:204-257).  A call awaits  *)
(* its SELECT and then its INSERT OR REPLACE / UPDATE; SQLite executes a   *)
(* statement and the call is resumed afterwards, so the calls of two       *)
(* callers may overlap.  The calls take any user, action and limit; the    *)
(* clock may start at several times of day, advance between calls, and     *)
(* pass an hour boundary while a call is under way.                        *)

MaxLimit == 2       \* largest maxAttempts passed to checkRateLimit

Limits == 1 .. MaxLimit

MaxCalls == 3       \* checkRateLimit calls in one behaviour

\* timeWindowHours values passed to checkRateLimit
WindowHours == { RateWindowHours }

\* 00:00 and 23:00 UTC of day 40
StartHours == { StartHour - (HoursPerDay - 1), StartHour }

\* an hour less than a day, and a day
ElapseSteps == { HoursPerDay - 1, HoursPerDay }

\* no call of the caller is under way
CallReturned(t) ==
    pc[t] \notin { "rate_limit_select", "rate_limit_selected",
                   "rate_limit_write", "rate_limit_written" }

\* A caller invokes checkRateLimit(userId, action, maxAttempts,
\* timeWindowHours).  Callers are interchangeable: a call that starts while
\* no other is under way is the first caller's.  The limit the callers pass
\* is a configured constant, the same on every call of a behaviour.  What
\* the calls that have returned left in their locals is dropped when a call
\* starts.
RateLimitCall(t, userId, action, maxAttempts, timeWindowHours) ==
    LET Fresh(f, v, none) ==
            [u \in Tasks |-> IF u = t THEN v
                             ELSE IF CallReturned(u) THEN none ELSE f[u]]
    IN
    /\ calls < MaxCalls
    /\ calls' = calls + 1
    /\ CallReturned(t)
    /\ \A u \in Tasks : req[u].maxAttempts \in { 0, maxAttempts }
    /\ IF t = 1 THEN TRUE ELSE ~CallReturned(t - 1)
    /\ req' = Fresh(req, [userId |-> userId, invoiceId |-> <<>>, entry |-> "",
                          action |-> action, maxAttempts |-> maxAttempts,
                          timeWindowHours |-> timeWindowHours], NoReq)
    /\ pc' = Fresh(pc, "rate_limit_select", "idle")
    /\ cutoffTime' = Fresh(cutoffTime, RateLimitCutoff(timeWindowHours, now), NoText)
    /\ rlRow' = Fresh(rlRow, NoRow, NoRow)
    /\ resetAfterParam' = Fresh(resetAfterParam, NoText, NoText)
    /\ rateLimitResult' = Fresh(rateLimitResult, NoRateLimitResult, NoRateLimitResult)
    /\ outcome' = Fresh(outcome, "", "")
    /\ UNCHANGED userLicenses
    /\ UNCHANGED <<envVars, dbVars, lookup, response, startedAt, before>>
    /\ UNCHANGED <<alreadyRedeemed, verification, licenseResult, err>>

\* The midnight after 23:00 UTC of day 40 passes while a call is under way:
\* a statement waits to be executed, or the call waits to be resumed with its
\* result.
HourPasses ==
    /\ now = StartHour
    /\ \E t \in Tasks : ~CallReturned(t)
    /\ now' = now + 1
    /\ UNCHANGED userLicenses
    /\ UNCHANGED <<ticks, faults, issued, dbVars, taskVars, histVars>>

\* The clock advances between calls, by most of a day or a day.
Elapse(d) ==
    /\ ticks < MaxTicks
    /\ \A t \in Tasks : CallReturned(t)
    /\ now' = now + d
    /\ ticks' = ticks + 1
    /\ UNCHANGED userLicenses
    /\ UNCHANGED <<faults, issued, dbVars, taskVars, histVars>>

InitRateLimit ==
    /\ now \in StartHours
    /\ EmptyState

\* the (userId, action) pairs the calls are made for: two actions of one
\* user and one action of another
RateLimitKeys ==
    { <<"U1", "redeem">>, <<"U1", "license_redemption">>, <<"U2", "redeem">> }

NextRateLimit ==
    \/ \E t \in Tasks, k \in RateLimitKeys, m \in Limits, h \in WindowHours :
          RateLimitCall(t, k[1], k[2], m, h)
    \/ \E t \in Tasks : RateLimitSelect(t, TRUE)
    \/ \E t \in Tasks : RateLimitSelected(t)
    \/ \E t \in Tasks : RateLimitWrite(t, TRUE)
    \/ \E t \in Tasks : RateLimitWritten(t)
    \/ HourPasses
    \/ \E d \in ElapseSteps : Elapse(d)

SpecRateLimit == InitRateLimit /\ [][NextRateLimit]_vars

---------------------------------------------------------------------------
(* sanitizeInvoiceId as a function (part_000:197-218).  The raw ids are    *)
(* bodies of chosen lengths around the two length limits, filled with a    *)
(* repeating pattern of allowed and disallowed characters, with whitespace *)
(* added on both sides.                                                    *)

MaxPad == 1         \* whitespace characters added on each side of a body

BodyLengths ==
    { 0, 1, MinInvoiceIdLen - 1, MinInvoiceIdLen, MinInvoiceIdLen + 1,
      MaxInvoiceIdLen - 2, MaxInvoiceIdLen - 1, MaxInvoiceIdLen,
      MaxInvoiceIdLen + 1, MaxInvoiceIdLen + 2 }

\* "A", "7", "-", "_", "!", " " and U+200B
BodyChars == { 65, 55, 45, 95, BANG, SP, ZWSP }

Patterns ==
    { <<c>> : c \in BodyChars } \cup { <<c, d>> : c \in BodyChars, d \in BodyChars }

Fill(n, pat) ==
    [i \in 1 .. n |-> pat[((i - 1) % Len(pat)) + 1]]

PadChars == { SP, NBSP, EMSP }

Pads ==
    UNION { [1 .. n -> PadChars] : n \in 0 .. MaxPad }

SanitizeInputs ==
    { lead \o Fill(n, pat) \o trail :
        lead \in Pads, trail \in Pads, n \in BodyLengths, pat \in Patterns }

InitSanitize ==
    /\ now = StartHour
    /\ EmptyLedger
    /\ NoLocals
    /\ verification = [t \in Tasks |-> NoVerification]
    /\ req \in { [t \in Tasks |->
                    IF t = 1 THEN Interaction("U1", raw, "command") ELSE NoReq] :
                 raw \in SanitizeInputs }

\* this.sanitizeInvoiceId(invoiceId) as verifyInvoice calls it: lookup keeps
\* the returned id (none when it threw) and err the thrown message
Sanitize ==
    LET s == sanitizeInvoiceId(req[1].invoiceId) IN
    /\ pc[1] = "idle"
    /\ pc' = [pc EXCEPT ![1] = "done"]
    /\ lookup' = [lookup EXCEPT ![1] = StorefrontRequests(req[1].invoiceId)]
    /\ err' = [err EXCEPT ![1] = s.message]
    /\ UNCHANGED userLicenses
    /\ UNCHANGED <<envVars, dbVars, response, startedAt, before, calls>>
    /\ UNCHANGED <<req, cutoffTime, rlRow, resetAfterParam, rateLimitResult, alreadyRedeemed, verification,
                   licenseResult, outcome>>

NextSanitize == Sanitize

SpecSanitize == InitSanitize /\ [][NextSanitize]_vars

---------------------------------------------------------------------------
(* validateInvoice as a function (part_000:144-190).  The invoices take    *)
(* every combination of paid flag, status, creation time around the age    *)
(* limit, amount and product; the clock may advance before a call, and the *)
(* function may be called again later.                                     *)

Statuses == { "paid", "pending", "refunded" }

\* ages, at the start, of the invoices that carry a creation time
Ages ==
    { -1, 0, 1, MaxInvoiceAgeHours - HoursPerDay, MaxInvoiceAgeHours - 1,
      MaxInvoiceAgeHours, MaxInvoiceAgeHours + 1, MaxInvoiceAgeHours + HoursPerDay }

CreationTimes == { <<>> } \cup { << StartHour - a >> : a \in Ages }

Amounts == { <<>>, << -1 >>, << 0 >>, << 1 >>, << 20 >> }

ProductIds == { "P1", "P2" }

ProductNames == { "Mod", "Other" }

InvoiceInputs ==
    { [id |-> INV01, paid |-> p, status |-> st, created_at |-> c, amount |-> a,
       product_id |-> pid, product_name |-> pn] :
        p \in BOOLEAN, st \in Statuses, c \in CreationTimes, a \in Amounts,
        pid \in ProductIds, pn \in ProductNames }

InitValidate ==
    /\ now = StartHour
    /\ EmptyLedger
    /\ NoLocals
    /\ req = [t \in Tasks |-> NoReq]
    /\ verification \in { [t \in Tasks |->
                             IF t = 1
                             THEN [NoVerification EXCEPT !.invoiceData = inv]
                             ELSE NoVerification] : inv \in InvoiceInputs }

\* this.validateInvoice(invoiceData) as verifyInvoice calls it: verification
\* keeps the returned valid and reason, startedAt the time of the call
Validate ==
    LET v == validateInvoice(verification[1].invoiceData, now) IN
    /\ pc' = [pc EXCEPT ![1] = "done"]
    /\ verification' = [verification EXCEPT ![1].valid = v.valid,
                                            ![1].reason = v.reason]
    /\ startedAt' = [startedAt EXCEPT ![1] = now]
    /\ UNCHANGED userLicenses
    /\ UNCHANGED <<envVars, dbVars, lookup, response, before, calls>>
    /\ UNCHANGED <<req, cutoffTime, rlRow, resetAfterParam, rateLimitResult, alreadyRedeemed, licenseResult,
                   err, outcome>>

NextValidate ==
    \/ Validate
    \/ \E d \in TickSteps : Tick(d)

SpecValidate == InitValidate /\ [][NextValidate]_vars

---------------------------------------------------------------------------
(* verifyInvoice as a function of the raw id and of the storefront's       *)
(* answer (part_000:62-137).  The raw ids pass or fail the sanitizing; the *)
(* answers are no response, 2xx with several bodies, and non-2xx statuses. *)

\* raw ids: three that sanitize, and four that sanitizeInvoiceId rejects
\* (empty, too short, too long, nothing left after the stripping)
VerifyRawIds ==
    RawIds \cup { <<>>, Fill(1, <<65>>), Fill(MaxInvoiceIdLen + 1, <<65>>),
                  Fill(MinInvoiceIdLen, <<BANG>>) }

\* statuses axios resolves with (2xx) and rejects with (the others)
HttpStatuses == { 200, 201, 301, 400, 401, 402, 403, 404, 409, 429, 500, 503 }

\* bodies of a 2xx answer: a redeemable invoice, an unpaid one, one that is
\* 30 days old at the start, and a body without an id
Bodies(id) ==
    { CatalogueInvoice(id),
      [CatalogueInvoice(id) EXCEPT !.paid = FALSE],
      [CatalogueInvoice(id) EXCEPT !.created_at = << StartHour - MaxInvoiceAgeHours >>],
      NoInvoice }

HttpAnswers(id) ==
    { NoResponse }
    \cup { [status |-> st, data |-> NoInvoice] : st \in { x \in HttpStatuses : x < 200 \/ x >= 300 } }
    \cup { [status |-> st, data |-> d] :
             st \in { x \in HttpStatuses : x >= 200 /\ x < 300 }, d \in Bodies(id) }

InitVerify ==
    /\ now = StartHour
    /\ EmptyLedger
    /\ NoLocals
    /\ verification = [t \in Tasks |-> NoVerification]
    /\ req \in { [t \in Tasks |->
                    IF t = 1 THEN Interaction("U1", raw, "command") ELSE NoReq] :
                 raw \in VerifyRawIds }

\* sellauth.verifyInvoice(invoiceId) up to its await: the id is sanitized and
\* the GET is sent.  An id that fails the sanitizing throws inside the try
\* block, and the call returns from its catch block without a request.
VerifyInvoiceRequest ==
    LET requests == StorefrontRequests(req[1].invoiceId) IN
    /\ pc[1] = "idle"
    /\ lookup' = [lookup EXCEPT ![1] = requests]
    /\ startedAt' = [startedAt EXCEPT ![1] = now]
    /\ IF requests = <<>>
       THEN /\ pc' = [pc EXCEPT ![1] = "done"]
            /\ verification' = [verification EXCEPT ![1] =
                                    verifyInvoice(req[1].invoiceId, NoResponse, now)]
       ELSE /\ pc' = [pc EXCEPT ![1] = "verify"]
            /\ UNCHANGED verification
    /\ UNCHANGED userLicenses
    /\ UNCHANGED <<envVars, dbVars, response, before, calls>>
    /\ UNCHANGED <<req, cutoffTime, rlRow, resetAfterParam, rateLimitResult, alreadyRedeemed, licenseResult,
                   err, outcome>>

\* The storefront answers `http` (or the request fails): verifyInvoice goes
\* on after its await, validating the invoice against the clock now.
VerifyInvoiceAnswer(http) ==
    /\ pc[1] = "verify"
    /\ pc' = [pc EXCEPT ![1] = "done"]
    /\ response' = [response EXCEPT ![1] = http]
    /\ verification' = [verification EXCEPT ![1] =
                            verifyInvoice(req[1].invoiceId, http, now)]
    /\ UNCHANGED userLicenses
    /\ UNCHANGED <<envVars, dbVars, lookup, startedAt, before, calls>>
    /\ UNCHANGED <<req, cutoffTime, rlRow, resetAfterParam, rateLimitResult, alreadyRedeemed, licenseResult,
                   err, outcome>>

NextVerify ==
    \/ VerifyInvoiceRequest
    \/ \E http \in HttpAnswers(INV01) \cup HttpAnswers(INV02) : VerifyInvoiceAnswer(http)
    \/ \E d \in TickSteps : Tick(d)

SpecVerify == InitVerify /\ [][NextVerify]_vars

---------------------------------------------------------------------------
(* Key retrieval: the /key command (part_001:10-83) and the panel's        *)
(* get_my_keys button (part_002:117-176), next to redemptions of the       *)
(* storefront's invoices through the panel's modal, whose collaborator     *)
(* calls all succeed, and to /panel commands.  A retrieval awaits its      *)
(* entry audit write, its deferReply, the SELECT of the licenses and the   *)
(* audit write of the retrieval one after the other, and the other         *)
(* invocations may step in between.                                        *)

MaxRetrievals == 1  \* key retrievals in one behaviour

\* the two ways to ask for one's keys: the /key command and the panel's
\* get_my_keys button
KeyEntries == { "command", "button" }

\* The audit action a key retrieval logs after showing the keys.
KeyAuditKind(entry) ==
    IF entry = "command" THEN "key_retrieval" ELSE "key_retrieval_button"

\* A key interaction arrives.  The /key command comes to handleSlashCommand,
\* which calls logAction('command_used') and awaits it; the button's handler
\* sends its deferReply.
KeyStart(userId, entry) ==
    /\ userLicenses.pc \in { "idle", "done" }
    /\ userLicenses.count < MaxRetrievals
    /\ userLicenses' = [count |-> userLicenses.count + 1, userId |-> userId,
                        entry |-> entry,
                        pc |-> IF entry = "command" THEN "command_used" ELSE "defer",
                        rows |-> <<>>, failed |-> FALSE]
    /\ UNCHANGED <<envVars, dbVars, taskVars, histVars>>

\* SQLite executes the INSERT of the 'command_used' entry (a failed write is
\* swallowed) and handleSlashCommand calls /key's execute, which sends its
\* deferReply.
KeyCommandUsed(writeOk) ==
    /\ userLicenses.pc = "command_used"
    /\ faults' = faults + Fails(writeOk)
    /\ audit_log' = logAction(userLicenses.userId, "command_used", [command |-> "key"],
                              writeOk)
    /\ userLicenses' = [userLicenses EXCEPT !.pc = "defer"]
    /\ UNCHANGED <<now, ticks, issued, rate_limits, redeemed_invoices>>
    /\ UNCHANGED <<taskVars, histVars>>

\* deferReply has returned: the handler asks the ledger for the user's
\* licenses (the SELECT is issued).
KeyDeferred ==
    /\ userLicenses.pc = "defer"
    /\ userLicenses' = [userLicenses EXCEPT !.pc = "read"]
    /\ UNCHANGED <<envVars, dbVars, taskVars, histVars>>

\* mutant of KeyRead: a retrieval is counted as a redemption attempt
KeyReadCountingAttempt(dbOk) ==
    /\ userLicenses.pc = "read"
    /\ dbOk
    /\ \E result \in getUserLicenses(userLicenses.userId) :
          userLicenses' = [userLicenses EXCEPT
                              !.rows = result,
                              !.pc = IF result = <<>> THEN "done" ELSE "audit"]
    /\ rate_limits' = RateLimitInsertOrReplace(userLicenses.userId, "redeem",
                                               IsoText(now + RateWindowHours), now)
    /\ UNCHANGED <<envVars, redeemed_invoices, audit_log, taskVars, histVars>>

\* getUserLicenses answers.  The handler shows the licenses, or that there
\* are none, and goes on to log the retrieval when there is at least one.
\* A failed SELECT is rethrown by getUserLicenses and caught by the handler,
\* which shows the error reply and logs nothing.
KeyRead(dbOk) ==
    /\ userLicenses.pc = "read"
    /\ faults' = faults + Fails(dbOk)
    /\ IF ~dbOk
       THEN userLicenses' = [userLicenses EXCEPT !.pc = "done", !.failed = TRUE]
       ELSE \E result \in getUserLicenses(userLicenses.userId) :
               userLicenses' = [userLicenses EXCEPT
                                   !.rows = result,
                                   !.pc = IF result = <<>> THEN "done" ELSE "audit"]
    /\ UNCHANGED <<now, ticks, issued, dbVars, taskVars, histVars>>

\* The logAction call after the keys were shown.
KeyAudit(writeOk) ==
    /\ userLicenses.pc = "audit"
    /\ faults' = faults + Fails(writeOk)
    /\ audit_log' = logAction(userLicenses.userId, KeyAuditKind(userLicenses.entry),
                              [keysRetrieved |-> Len(userLicenses.rows)], writeOk)
    /\ userLicenses' = [userLicenses EXCEPT !.pc = "done"]
    /\ UNCHANGED <<now, ticks, issued, rate_limits, redeemed_invoices>>
    /\ UNCHANGED <<taskVars, histVars>>

NextKeys ==
    \/ \E t \in Tasks, u \in Users, i \in CatalogueIds : Start(t, u, i, "modal")
    \/ \E t \in Tasks, u \in Users : Start(t, u, NoId, PanelEntry)
    \/ \E t \in Tasks : CommandUsed(t, TRUE)
    \/ \E t \in Tasks : Deferred(t)
    \/ \E t \in Tasks, ok \in CallOutcomes : PanelReply(t, ok)
    \/ \E t \in Tasks : CommandError(t, TRUE)
    \/ \E t \in Tasks : RateLimitSelect(t, TRUE)
    \/ \E t \in Tasks : RateLimitSelected(t)
    \/ \E t \in Tasks : RateLimitWrite(t, TRUE)
    \/ \E t \in Tasks : RateLimitWritten(t)
    \/ \E t \in Tasks : DuplicateCheck(t, TRUE)
    \/ \E t \in Tasks : DuplicateChecked(t)
    \/ \E t \in Tasks : Verify(t, TRUE)
    \/ \E t \in Tasks : Issue(t, TRUE)
    \/ \E t \in Tasks : Record(t, TRUE)
    \/ \E t \in Tasks : Reply(t)
    \/ \E t \in Tasks : Audit(t, TRUE)
    \/ \E u \in Users, e \in KeyEntries : KeyStart(u, e)
    \/ \E w \in CallOutcomes : KeyCommandUsed(w)
    \/ KeyDeferred
    \/ \E ok \in CallOutcomes : KeyRead(ok)
    \/ \E w \in CallOutcomes : KeyAudit(w)
    \/ Tick(HoursPerDay)

SpecKeys == Init /\ [][NextKeys]_vars

---------------------------------------------------------------------------
(* Invocations whose audit writes may fail as well: every logAction call   *)
(* of handleSlashCommand and of the handlers succeeds or fails, next to    *)
(* the storage, transport, issuer and Discord faults.                      *)

NextAudit ==
    \/ \E t \in Tasks, u \in Users, i \in RawIds, e \in Entries : Start(t, u, i, e)
    \/ \E t \in Tasks, u \in Users : Start(t, u, NoId, PanelEntry)
    \/ \E t \in Tasks, w \in CallOutcomes : CommandUsed(t, w)
    \/ \E t \in Tasks : Deferred(t)
    \/ \E t \in Tasks, ok \in CallOutcomes : PanelReply(t, ok)
    \/ \E t \in Tasks, w \in CallOutcomes : CommandError(t, w)
    \/ \E t \in Tasks, ok \in CallOutcomes : RateLimitSelect(t, ok)
    \/ \E t \in Tasks : RateLimitSelected(t)
    \/ \E t \in Tasks, ok \in CallOutcomes : RateLimitWrite(t, ok)
    \/ \E t \in Tasks : RateLimitWritten(t)
    \/ \E t \in Tasks, ok \in CallOutcomes : DuplicateCheck(t, ok)
    \/ \E t \in Tasks : DuplicateChecked(t)
    \/ \E t \in Tasks : Progress(t)
    \/ \E t \in Tasks, ok \in CallOutcomes : Verify(t, ok)
    \/ \E t \in Tasks, ok \in CallOutcomes : Issue(t, ok)
    \/ \E t \in Tasks : IssueThrows(t)
    \/ \E t \in Tasks, ok \in CallOutcomes : Record(t, ok)
    \/ \E t \in Tasks : Reply(t)
    \/ \E t \in Tasks, w \in CallOutcomes : Audit(t, w)

SpecAudit == Init /\ [][NextAudit]_vars

---------------------------------------------------------------------------
(* Progress of the handlers.  Every await of a handler is on a promise     *)
(* that settles: the ledger calls resolve or reject in sqlite's callback,  *)
(* the storefront and issuer requests carry a timeout, and the event loop  *)
(* resumes the handler when the promise has settled.  So a step of a       *)
(* started invocation that stays possible is eventually taken.             *)

\* the next step of a started invocation
HandlerStep(t) ==
    \/ CommandUsed(t, TRUE)
    \/ Deferred(t)
    \/ \E ok \in CallOutcomes : PanelReply(t, ok)
    \/ CommandError(t, TRUE)
    \/ \E ok \in CallOutcomes : RateLimitSelect(t, ok)
    \/ RateLimitSelected(t)
    \/ \E ok \in CallOutcomes : RateLimitWrite(t, ok)
    \/ RateLimitWritten(t)
    \/ \E ok \in CallOutcomes : DuplicateCheck(t, ok)
    \/ DuplicateChecked(t)
    \/ Progress(t)
    \/ \E ok \in CallOutcomes : Verify(t, ok)
    \/ \E ok \in CallOutcomes : Issue(t, ok)
    \/ IssueThrows(t)
    \/ \E ok \in CallOutcomes : Record(t, ok)
    \/ Reply(t)
    \/ Audit(t, TRUE)

\* Interactions arrive and the started invocations step; the clock stands
\* still, since no step of a handler waits for it.
NextLive ==
    \/ \E t \in Tasks, u \in Users, i \in RawIds, e \in Entries : Start(t, u, i, e)
    \/ \E t \in Tasks, u \in Users : Start(t, u, NoId, PanelEntry)
    \/ \E t \in Tasks : HandlerStep(t)

SpecLive == Init /\ [][NextLive]_vars /\ \A t \in Tasks : WF_vars(HandlerStep(t))

---------------------------------------------------------------------------
(* Vocabulary of the properties *)

Done(t) == pc[t] = "done"

SameRequester(t1, t2) == req[t1].userId = req[t2].userId

SameEntry(t1, t2) == req[t1].entry = req[t2].entry

SameInvoiceId(t1, t2) == req[t1].invoiceId = req[t2].invoiceId

\* t1 had ended when t2 started
Precedes(t1, t2) == t1 \in before[t2]

\* no storage call of the invocation failed
NoStorageFault(t) == err[t] # "SQLITE_ERROR"

\* the issuer did not reject the invocation's call
NoIssuerFault(t) == err[t] # "KEYAUTH_EXCEPTION"

\* the rate limit admitted the invocation
Admitted(t) == rateLimitResult[t].allowed

Abs(x) == IF x < 0 THEN -x ELSE x

\* rows of the ledger for an invoice id
RowsOf(invoiceId) == { r \in redeemed_invoices : r.invoice_id = invoiceId }

\* the row an invocation inserted
RowsBy(t) ==
    { r \in redeemed_invoices :
        /\ licenseResult[t].success
        /\ r.license_key = licenseResult[t].licenseKey }

---------------------------------------------------------------------------
(* C1.  Once a requester has made a redeem invocation on an entry point,   *)
(* every later invocation by the same requester on that entry point that   *)
(* starts less than 24 hours after the first ends RATE_LIMITED and makes   *)
(* no storefront call.  Stated for its most favourable case: the first     *)
(* invocation has ended before the later one starts, and no storage call   *)
(* of either fails.                                                        *)
C1_SecondRedeemWithinWindowRateLimited ==
    \A t1, t2 \in Tasks :
        ( /\ Precedes(t1, t2)
          /\ SameRequester(t1, t2) /\ SameEntry(t1, t2)
          /\ startedAt[t2] < startedAt[t1] + RateWindowHours
          /\ NoStorageFault(t1) /\ NoStorageFault(t2)
          /\ Done(t2) )
        => outcome[t2] = "RATE_LIMITED" /\ lookup[t2] = <<>>

(* C2.  checkRateLimit is atomic per (userId, action): the calls answered  *)
(* allowed = true within one window (the answers carrying the same         *)
(* resetAfter) never number more than maxAttempts.                         *)
C2_RateLimitAtomic ==
    \A t \in Tasks :
        Admitted(t) =>
            Cardinality({ u \in Tasks :
                            /\ Admitted(u)
                            /\ SameRequester(t, u) /\ SameEntry(t, u)
                            /\ rateLimitResult[u].resetAfter = rateLimitResult[t].resetAfter })
                <= MaxAttempts(req[t].entry)

(* C3.  Two redeem invocations for the same invoice id, each admitted by   *)
(* the rate limit and with no failing verification, issuance or storage    *)
(* call, end with one SUCCESS and one ALREADY_REDEEMED.                    *)
C3_SameInvoiceOneSuccessOneAlreadyRedeemed ==
    \A t1, t2 \in Tasks :
        ( /\ t1 # t2
          /\ SameInvoiceId(t1, t2)
          /\ Done(t1) /\ Done(t2)
          /\ Admitted(t1) /\ Admitted(t2)
          /\ NoStorageFault(t1) /\ NoStorageFault(t2)
          /\ NoIssuerFault(t1) /\ NoIssuerFault(t2)
          /\ outcome[t1] \notin { "VERIFICATION_FAILED", "ISSUANCE_FAILED" }
          /\ outcome[t2] \notin { "VERIFICATION_FAILED", "ISSUANCE_FAILED" } )
        => { outcome[t1], outcome[t2] } = { "SUCCESS", "ALREADY_REDEEMED" }

(* C4.  redeemed_invoices never holds two rows with the same invoice_id.   *)
C4_InvoiceIdUnique ==
    \A r1, r2 \in redeemed_invoices :
        r1.invoice_id = r2.invoice_id => r1 = r2

\* an INSERT of an id already present was attempted and refused
C4_Witness ==
    \E t \in Tasks :
        /\ err[t] = "SQLITE_CONSTRAINT"
        /\ RowsOf(req[t].invoiceId) # {}

(* C5.  A storefront invoice is redeemed at most once: no two invocations  *)
(* end in SUCCESS for the same storefront invoice, whatever raw spelling   *)
(* of its id each supplied.                                                *)
C5_StorefrontInvoiceRedeemedOnce ==
    \A t1, t2 \in Tasks :
        ( /\ t1 # t2
          /\ outcome[t1] = "SUCCESS"
          /\ outcome[t2] = "SUCCESS" )
        => verification[t1].invoiceData.id # verification[t2].invoiceData.id

(* C6.  An insert refused because the invoice id is already present ends   *)
(* the invocation with the ALREADY_REDEEMED outcome.                       *)
C6_InsertConflictIsAlreadyRedeemed ==
    \A t \in Tasks :
        err[t] = "SQLITE_CONSTRAINT" => outcome[t] = "ALREADY_REDEEMED"

(* C7.  An invocation ends in SUCCESS with license key k for invoice i and *)
(* requester u only if the ledger holds a row for i with requester u and   *)
(* license key k.                                                          *)
C7_SuccessOnlyWithRecord ==
    \A t \in Tasks :
        outcome[t] = "SUCCESS" =>
            /\ licenseResult[t].success
            /\ \E r \in redeemed_invoices :
                  /\ r.invoice_id = req[t].invoiceId
                  /\ r.discord_user_id = req[t].userId
                  /\ r.license_key = licenseResult[t].licenseKey

C7_Witness ==
    \E t \in Tasks : outcome[t] = "SUCCESS"

(* C8.  An invocation whose issuance fails ends ISSUANCE_FAILED without    *)
(* marking the invoice: every row of that invoice id comes from another    *)
(* invocation's issued key.  A later invocation for the same invoice id    *)
(* that the rate limit admits, that meets no storage fault and that no     *)
(* other invocation beat to the record, is decided by its own verification *)
(* and issuance alone, and ends in SUCCESS when both succeed.              *)
C8_IssuanceFailureDoesNotConsume ==
    \A t \in Tasks :
        outcome[t] = "ISSUANCE_FAILED" =>
            /\ ~licenseResult[t].success
            /\ \A r \in RowsOf(req[t].invoiceId) :
                  \E u \in Tasks \ { t } : SameInvoiceId(t, u) /\ r \in RowsBy(u)
            /\ \A u \in Tasks :
                  ( /\ Precedes(t, u)
                    /\ SameInvoiceId(t, u)
                    /\ Done(u) /\ Admitted(u) /\ err[u] = ""
                    /\ RowsOf(req[u].invoiceId) \subseteq RowsBy(u) )
                  => outcome[u] =
                        IF ~verification[u].valid THEN "VERIFICATION_FAILED"
                        ELSE IF ~licenseResult[u].success THEN "ISSUANCE_FAILED"
                        ELSE "SUCCESS"

\* issuance failed for an invoice, and a later invocation redeemed it
C8_Witness ==
    \E t, u \in Tasks :
        /\ outcome[t] = "ISSUANCE_FAILED"
        /\ Precedes(t, u)
        /\ SameInvoiceId(t, u)
        /\ outcome[u] = "SUCCESS"

(* C9, as claimed.  After redeem(U, I) has ended in SUCCESS, an immediate   *)
(* second redeem(U, I) by the same requester (started at the same clock    *)
(* reading) ends in ALREADY_REDEEMED.                                      *)
C9_ImmediateSecondCallAlreadyRedeemed ==
    \A t1, t2 \in Tasks :
        ( /\ Precedes(t1, t2)
          /\ outcome[t1] = "SUCCESS"
          /\ SameRequester(t1, t2) /\ SameInvoiceId(t1, t2)
          /\ startedAt[t2] = startedAt[t1]
          /\ Done(t2) /\ NoStorageFault(t2) )
        => outcome[t2] = "ALREADY_REDEEMED"

(* C9, amended.  After redeem(U, I) has ended in SUCCESS, a second          *)
(* redeem(U, I) by the same requester ends in RATE_LIMITED when the rate   *)
(* limit denies it and in ALREADY_REDEEMED when the rate limit admits it.  *)
C9_SecondCallRateLimitedOrAlreadyRedeemed ==
    \A t1, t2 \in Tasks :
        ( /\ Precedes(t1, t2)
          /\ outcome[t1] = "SUCCESS"
          /\ SameRequester(t1, t2) /\ SameInvoiceId(t1, t2)
          /\ Done(t2) /\ NoStorageFault(t2) )
        => outcome[t2] = IF Admitted(t2) THEN "ALREADY_REDEEMED" ELSE "RATE_LIMITED"

C9_Witness ==
    \E t1, t2 \in Tasks :
        /\ Precedes(t1, t2)
        /\ outcome[t1] = "SUCCESS"
        /\ SameRequester(t1, t2) /\ SameInvoiceId(t1, t2)
        /\ outcome[t2] = "ALREADY_REDEEMED"

(* C10.  No user obtains more than one SUCCESS within 24 hours, counting   *)
(* the /redeem command and the redeem modal together: two successful       *)
(* redemptions of one user, one through each entry point, are recorded at  *)
(* least 24 hours apart.                                                   *)
C10_OneSuccessPerUserPerDay ==
    \A t1, t2 \in Tasks :
        ( /\ outcome[t1] = "SUCCESS"
          /\ outcome[t2] = "SUCCESS"
          /\ SameRequester(t1, t2)
          /\ ~SameEntry(t1, t2) )
        => \A r1 \in RowsBy(t1), r2 \in RowsBy(t2) :
              Abs(ParseDate(r1.redeemed_at) - ParseDate(r2.redeemed_at)) >= RateWindowHours

(* C11.  Whatever failure a ledger, verifier or issuer call raises at any  *)
(* stage, no exception leaves a redeem invocation: every ended invocation  *)
(* has shown exactly one outcome of the closed set, and the one that       *)
(* caught an error has shown UNEXPECTED_ERROR.  (An exception that leaves  *)
(* the handler ends it with no outcome shown.)                             *)
C11_NoExceptionEscapes ==
    \A t \in Tasks :
        Done(t) =>
            /\ outcome[t] \in Outcomes
            /\ err[t] # "" => outcome[t] = "UNEXPECTED_ERROR"

\* a storage call or the issuer rejected, and the handler replied
C11_Witness ==
    \E t \in Tasks :
        /\ Done(t)
        /\ err[t] \in { "SQLITE_ERROR", "SQLITE_CONSTRAINT", "KEYAUTH_EXCEPTION" }
        /\ outcome[t] = "UNEXPECTED_ERROR"

\* the counter a checkRateLimit call is made for
CallKey(t) == << req[t].userId, req[t].action >>

\* the clock when t's checkRateLimit call was made (it computed the cutoff)
CallTime(t) == ParseDate(cutoffTime[t]) + req[t].timeWindowHours

\* the step is SQLite executing the SELECT of t's checkRateLimit call
SelectAnswers(t) ==
    pc[t] = "rate_limit_select" /\ pc'[t] = "rate_limit_selected"

\* the step is t's checkRateLimit call resuming with the row its SELECT read
CallDecides(t) == pc[t] = "rate_limit_selected" /\ pc'[t] # pc[t]

\* the step is t's checkRateLimit call returning allowed = false
CallDenies(t) ==
    /\ pc[t] = "rate_limit_selected"
    /\ pc'[t] = "done"
    /\ outcome'[t] = "RATE_LIMITED"

\* the step is SQLite executing the write of t's checkRateLimit call
CallWrites(t) == pc[t] = "rate_limit_write" /\ pc'[t] = "rate_limit_written"

\* the step is t's checkRateLimit call returning allowed = true
CallAllows(t) == pc[t] = "rate_limit_written" /\ pc'[t] # pc[t]

(* C12.  For sequential calls checkRateLimit(user, action, max, hours):   *)
(* when no counter is stored for (user, action) or hours or more have     *)
(* passed since the counter's first attempt, the call stores attempts = 1  *)
(* with reset_after = now + hours (now being the clock at some moment of   *)
(* the call, which may last into the next hour) and allows; otherwise,     *)
(* when the stored attempts are below max, it adds one to attempts, keeps  *)
(* reset_after and allows; otherwise it denies, changes nothing and        *)
(* reports the stored attempts and reset_after.  Stated step by step: the  *)
(* SELECT reads the stored counter exactly when its window has not         *)
(* expired, the call denies exactly when that counter is at its limit,     *)
(* the write stores the fresh or the incremented counter, and the call     *)
(* returns what it stored.                                                 *)
C12_Expected(t) ==
    LET k      == CallKey(t)
        stored == rate_limits[k]
        result == rateLimitResult'[t]
        maxAttempts     == req[t].maxAttempts
        timeWindowHours == req[t].timeWindowHours
        inWindow == /\ stored.present
                    /\ CallTime(t) - ParseDate(stored.first_attempt) < timeWindowHours
        DuringCall(h) == CallTime(t) <= h /\ h <= now
    IN
    /\ SelectAnswers(t)
          => rlRow'[t] = IF inWindow THEN stored ELSE NoRow
    /\ CallDecides(t)
          => IF inWindow /\ stored.attempts >= maxAttempts
             THEN /\ CallDenies(t)
                  /\ rate_limits' = rate_limits
                  /\ ~result.allowed /\ result.attempts = stored.attempts
                  /\ result.resetAfter = ParseDate(stored.reset_after)
             ELSE ~CallDenies(t)
    /\ CallWrites(t)
          => IF ~inWindow
             THEN /\ rate_limits'[k].present
                  /\ rate_limits'[k].attempts = 1
                  /\ DuringCall(ParseDate(rate_limits'[k].reset_after) - timeWindowHours)
             ELSE /\ rate_limits'[k].attempts = stored.attempts + 1
                  /\ rate_limits'[k].reset_after = stored.reset_after
    /\ CallAllows(t)
          => /\ result.allowed
             /\ result.attempts = stored.attempts
             /\ IF rlRow[t].present
                THEN result.resetAfter = ParseDate(stored.reset_after)
                ELSE DuringCall(result.resetAfter - timeWindowHours)

\* the calls are those of one caller, so each returns before the next starts
C12_SequentialWindowSemantics ==
    [][ pc[2] = "idle" => C12_Expected(1) ]_vars

\* positions of the characters of a string that are not whitespace
C13_Core(s) == { i \in 1 .. Len(s) : s[i] \notin WhiteSpace }

C13_Min(S) == CHOOSE x \in S : \A y \in S : x <= y

C13_Max(S) == CHOOSE x \in S : \A y \in S : x >= y

\* length of a string without its leading and trailing whitespace
C13_TrimmedLength(s) ==
    IF C13_Core(s) = {} THEN 0 ELSE C13_Max(C13_Core(s)) - C13_Min(C13_Core(s)) + 1

(* C13.  sanitizeInvoiceId rejects its input exactly when the input without *)
(* its leading and trailing whitespace is shorter than 5 or longer than 50  *)
(* characters, or when it holds no character of [A-Za-z0-9_-]; every other  *)
(* input is accepted.                                                       *)
C13_RejectsExactly ==
    pc[1] = "done" =>
        LET raw == req[1].invoiceId
            n   == C13_TrimmedLength(raw)
        IN
        (lookup[1] = <<>>) <=>
            \/ n < MinInvoiceIdLen
            \/ n > MaxInvoiceIdLen
            \/ \A i \in 1 .. Len(raw) : raw[i] \notin AllowedChars

\* an input of 50 characters after trimming, none of them allowed, was
\* rejected for what the stripping left
C13_Witness ==
    /\ pc[1] = "done"
    /\ lookup[1] = <<>>
    /\ C13_TrimmedLength(req[1].invoiceId) = MaxInvoiceIdLen
    /\ Len(req[1].invoiceId) > MaxInvoiceIdLen
    /\ err[1] = "Invoice ID contains invalid characters"

(* C14.  Every invoice id that sanitizeInvoiceId returns is between 5 and  *)
(* 50 characters long and consists only of characters in [A-Za-z0-9_-].    *)
C14_ReturnedIdWellFormed ==
    \A k \in 1 .. Len(lookup[1]) :
        LET clean == lookup[1][k] IN
        /\ Len(clean) >= MinInvoiceIdLen
        /\ Len(clean) <= MaxInvoiceIdLen
        /\ \A i \in 1 .. Len(clean) : clean[i] \in AllowedChars

(* C15.  For every string s of 5 to 50 characters drawn only from          *)
(* [A-Za-z0-9_-], sanitizeInvoiceId applied to s with any leading and       *)
(* trailing whitespace added returns exactly s.                            *)
C15_PaddedIdReturned ==
    pc[1] = "done" =>
        LET raw  == req[1].invoiceId
            core == C13_Core(raw)
            n    == C13_TrimmedLength(raw)
        IN
        ( /\ n >= MinInvoiceIdLen /\ n <= MaxInvoiceIdLen
          /\ \A i \in C13_Min(core) .. C13_Max(core) : raw[i] \in AllowedChars )
        => lookup[1] = << SubSeq(raw, C13_Min(core), C13_Max(core)) >>

\* an id of 50 allowed characters with whitespace on both sides was returned
C15_Witness ==
    /\ pc[1] = "done"
    /\ lookup[1] # <<>>
    /\ Len(lookup[1][1]) = MaxInvoiceIdLen
    /\ Len(req[1].invoiceId) > MaxInvoiceIdLen + 1
    /\ req[1].invoiceId[1] \in WhiteSpace
    /\ req[1].invoiceId[Len(req[1].invoiceId)] \in WhiteSpace

\* the invoice validateInvoice was called with, and what the claims say of it
C16_Invoice == verification[1].invoiceData

C16_NotPaid == ~C16_Invoice.paid \/ C16_Invoice.status # "paid"

C16_HasAge == C16_Invoice.created_at # <<>>

\* age of the invoice at the time of the call
C16_Age == startedAt[1] - C16_Invoice.created_at[1]

C16_BadAmount == C16_Invoice.amount = <<>> \/ C16_Invoice.amount[1] <= 0

(* C16.  validateInvoice returns invalid with the not-paid reason for      *)
(* every invoice whose paid flag is false or whose status is not 'paid',   *)
(* whatever its created_at, amount and other fields.                       *)
C16_NotPaidIsInvalid ==
    (pc[1] = "done" /\ C16_NotPaid) =>
        ~verification[1].valid /\ verification[1].reason = "not paid"

\* an invoice with status 'paid' but the paid flag false, fresh and with a
\* positive amount, was refused
C16_Witness ==
    /\ pc[1] = "done"
    /\ ~C16_Invoice.paid /\ C16_Invoice.status = "paid"
    /\ C16_HasAge /\ C16_Age = 1
    /\ ~C16_BadAmount
    /\ verification[1].reason = "not paid"

(* C17.  For a paid invoice with a positive amount (and a creation time),  *)
(* validateInvoice returns valid exactly when the invoice's age at the     *)
(* time of the call is strictly less than 30 days; an age of 30 days or    *)
(* more, exactly 30 days included, is invalid with the too-old reason.     *)
C17_ValidExactlyWhenYoungerThan30Days ==
    (pc[1] = "done" /\ ~C16_NotPaid /\ ~C16_BadAmount /\ C16_HasAge) =>
        IF C16_Age < MaxInvoiceAgeHours
        THEN verification[1].valid
        ELSE ~verification[1].valid /\ verification[1].reason = "too old"

(* C18.  For a paid invoice younger than 30 days, validateInvoice returns  *)
(* invalid with the invalid-amount reason when the amount is absent, zero  *)
(* or negative, and valid when the amount is a number greater than 0.      *)
C18_AmountCheck ==
    ( /\ pc[1] = "done" /\ ~C16_NotPaid
      /\ C16_HasAge /\ C16_Age < MaxInvoiceAgeHours ) =>
        IF C16_BadAmount
        THEN ~verification[1].valid /\ verification[1].reason = "invalid amount"
        ELSE verification[1].valid

\* a paid invoice one hour short of 30 days old with amount 0 was refused
C18_Witness ==
    /\ pc[1] = "done" /\ ~C16_NotPaid
    /\ C16_HasAge /\ C16_Age = MaxInvoiceAgeHours - 1
    /\ C16_Invoice.amount = << 0 >>
    /\ verification[1].reason = "invalid amount"

(* C19.  When an invoice fails more than one business check,               *)
(* validateInvoice reports the reason of the first failing check in the    *)
(* order paid status, age, amount.  (The age check is taken as failing for *)
(* an invoice older than 30 days.)                                         *)
C19_FirstFailingCheckWins ==
    pc[1] = "done" =>
        LET tooOld == C16_HasAge /\ C16_Age > MaxInvoiceAgeHours IN
        /\ (C16_NotPaid /\ (tooOld \/ C16_BadAmount)) =>
              verification[1].reason = "not paid"
        /\ (~C16_NotPaid /\ tooOld /\ C16_BadAmount) =>
              verification[1].reason = "too old"

\* a paid invoice that is both too old and without a valid amount
C19_Witness ==
    /\ pc[1] = "done" /\ ~C16_NotPaid
    /\ C16_HasAge /\ C16_Age > MaxInvoiceAgeHours
    /\ C16_BadAmount
    /\ verification[1].reason = "too old"

(* C20.  The result does not depend on the product: every invoice that     *)
(* agrees with the validated one on paid, status, created_at and amount    *)
(* gets the same valid/invalid result and reason, whatever its product_id  *)
(* and product_name.                                                       *)
C20_ProductIndependent ==
    pc[1] = "done" =>
        \A other \in InvoiceInputs :
            ( /\ other.paid = C16_Invoice.paid
              /\ other.status = C16_Invoice.status
              /\ other.created_at = C16_Invoice.created_at
              /\ other.amount = C16_Invoice.amount )
            => validateInvoice(other, startedAt[1]) =
                  [valid |-> verification[1].valid, reason |-> verification[1].reason]

\* an invoice of the second product was found valid
C20_Witness ==
    /\ pc[1] = "done"
    /\ C16_Invoice.product_id = "P2" /\ C16_Invoice.product_name = "Other"
    /\ verification[1].valid

\* the error kind the claim fixes for an HTTP outcome that is not 2xx
C21_ErrorKind(status) ==
    CASE status = 0   -> "NETWORK_ERROR"
      [] status = 404 -> "INVOICE_NOT_FOUND"
      [] status = 401 -> "AUTHENTICATION_FAILED"
      [] status = 403 -> "ACCESS_DENIED"
      [] status = 429 -> "RATE_LIMITED"
      [] OTHER        -> "API_ERROR"

(* C21.  verifyInvoice maps every failed storefront lookup to valid=false  *)
(* with the error kind fixed by the HTTP outcome: 404 not-found, 401       *)
(* authentication-failed, 403 access-denied, 429 rate-limited, any other   *)
(* non-2xx status API_ERROR, no response or timeout NETWORK_ERROR.         *)
C21_LookupFailureMapping ==
    ( /\ pc[1] = "done"
      /\ lookup[1] # <<>>
      /\ response[1].status < 200 \/ response[1].status >= 300 )
    => /\ ~verification[1].valid
       /\ verification[1].error = C21_ErrorKind(response[1].status)

\* the storefront answered 429 and the result says rate-limited
C21_Witness ==
    /\ pc[1] = "done"
    /\ lookup[1] # <<>>
    /\ response[1].status = 429
    /\ verification[1].error = "RATE_LIMITED"

(* C22.  verifyInvoice called with a raw id that fails the sanitizing      *)
(* makes no storefront request and reports an invalid-input failure that   *)
(* differs from every remote-lookup error kind; in particular it is not    *)
(* NETWORK_ERROR with the try-again-later reason.                          *)
C22_InvalidInputDistinguishable ==
    (pc[1] = "done" /\ ~sanitizeInvoiceId(req[1].invoiceId).ok) =>
        /\ lookup[1] = <<>>
        /\ ~verification[1].valid
        /\ verification[1].error \notin
              { "NETWORK_ERROR", "INVOICE_NOT_FOUND", "AUTHENTICATION_FAILED",
                "ACCESS_DENIED", "RATE_LIMITED", "API_ERROR" }
        /\ verification[1].reason # "try again later"

(* C23.  getUserLicenses(U) returns exactly the redemption records whose  *)
(* requester is U, never a record of another user, newest first by         *)
(* redemption time; after U's successful redemption of invoice I it        *)
(* returns exactly one entry for I.  Stated of every step in which the     *)
(* query of a retrieval answers.                                           *)
C23_Retrieved ==
    LET u    == userLicenses'.userId
        rows == userLicenses'.rows
        mine == { r \in redeemed_invoices : r.discord_user_id = u }
    IN
    /\ { rows[i] : i \in 1 .. Len(rows) } = { LicenseColumns(r) : r \in mine }
    /\ Len(rows) = Cardinality(mine)
    /\ \A i \in 1 .. Len(rows) - 1 :
          ParseDate(rows[i].redeemed_at) >= ParseDate(rows[i + 1].redeemed_at)
    /\ \A t \in Tasks :
          (outcome[t] = "SUCCESS" /\ req[t].userId = u) =>
              Cardinality({ i \in 1 .. Len(rows) :
                              rows[i].invoice_id = req[t].invoiceId }) = 1

C23_UserLicensesExact ==
    [][ ( /\ userLicenses.pc = "read"
          /\ userLicenses'.pc # "read"
          /\ ~userLicenses'.failed ) => C23_Retrieved ]_vars

\* a retrieval returned two licenses redeemed at different times
C23_Witness ==
    /\ userLicenses.count > 0
    /\ Len(userLicenses.rows) = 2
    /\ userLicenses.rows[1].redeemed_at # userLicenses.rows[2].redeemed_at

\* the outcome the results of an ended invocation's stages dictate
C24_Dictated(t) ==
    IF err[t] \in { "SQLITE_ERROR", "SQLITE_CONSTRAINT", "KEYAUTH_EXCEPTION" }
    THEN "UNEXPECTED_ERROR"
    ELSE IF ~rateLimitResult[t].allowed THEN "RATE_LIMITED"
    ELSE IF verification[t] = NoVerification THEN "ALREADY_REDEEMED"
    ELSE IF ~verification[t].valid THEN "VERIFICATION_FAILED"
    ELSE IF ~licenseResult[t].success THEN "ISSUANCE_FAILED"
    ELSE "SUCCESS"

(* C24.  A failed audit write never changes a redemption: whether its      *)
(* audit writes succeed or fail, an ended invocation shows the outcome its *)
(* rate-limit, duplicate, verification, issuance and record results        *)
(* dictate, its counter is stored when it was admitted, and its row is in  *)
(* redeemed_invoices exactly when its record insert went through.          *)
C24_AuditFailureChangesNothing ==
    \A t \in Tasks :
        Done(t) =>
            /\ err[t] # "AUDIT_ERROR"
            /\ outcome[t] = C24_Dictated(t)
            /\ Admitted(t) => rate_limits[<<req[t].userId, ActionKind(req[t].entry)>>].present
            /\ (RowsBy(t) # {}) <=> (outcome[t] = "SUCCESS")

\* a /redeem invocation ended in SUCCESS although the write of its
\* success entry failed
C24_Witness ==
    \E t \in Tasks :
        /\ Done(t)
        /\ outcome[t] = "SUCCESS"
        /\ req[t].entry = "command"
        /\ \A e \in BagToSet(audit_log) : e.action # "redemption_success"

\* audit entries written for the requester of an invocation about its invoice
AuditEntriesOf(t) ==
    { e \in BagToSet(audit_log) :
        /\ e.user_id = req[t].userId
        /\ e.data.invoiceId = req[t].invoiceId }

(* C25.  Every redeem invocation that exits ALREADY_REDEEMED at the        *)
(* duplicate check has written an audit entry of kind redemption_failed    *)
(* for its requester.                                                      *)
C25_AlreadyRedeemedIsAudited ==
    \A t \in Tasks :
        ( Done(t) /\ outcome[t] = "ALREADY_REDEEMED" )
        => \E e \in AuditEntriesOf(t) : e.action = "redemption_failed"

(* C26.  Every redeem invocation that exits VERIFICATION_FAILED or         *)
(* ISSUANCE_FAILED has written an audit entry about that failure for its   *)
(* requester, on the /redeem command and on the redeem modal alike.        *)
C26_FailedExitsAreAudited ==
    \A t \in Tasks :
        ( Done(t) /\ outcome[t] \in { "VERIFICATION_FAILED", "ISSUANCE_FAILED" } )
        => \E e \in AuditEntriesOf(t) :
              e.action \in { "redemption_failed", "license_creation_failed" }

(* C27.  Every redeem invocation in which a storage or issuer call raised  *)
(* an error ends in UNEXPECTED_ERROR and has written an audit entry that   *)
(* carries the raw error, on both entry points.                            *)
C27_UnexpectedErrorIsAudited ==
    \A t \in Tasks :
        ( Done(t) /\ err[t] # "" )
        => /\ outcome[t] = "UNEXPECTED_ERROR"
           /\ \E e \in AuditEntriesOf(t) : e.data.error = err[t]

(* C28.  Whenever a license key has been issued and the record insert that *)
(* follows fails, the ended invocation has written the orphaned key to the *)
(* audit trail (the handlers' operator-log lines of that path carry the    *)
(* invoice id and the error only, as the audit entry does).                *)
C28_OrphanedKeyIsLogged ==
    \A t \in Tasks :
        ( /\ Done(t)
          /\ licenseResult[t].success
          /\ err[t] \in { "SQLITE_ERROR", "SQLITE_CONSTRAINT" } )
        => \E e \in AuditEntriesOf(t) : e.data.licenseKey = licenseResult[t].licenseKey

\* the positions of a redeem invocation in the order of its handler's code:
\* the /redeem command is entered through handleSlashCommand's entry log and
\* sends a progress reply before it verifies
StageOrder(entry) ==
    IF entry = "command"
    THEN << "idle", "command_used", "defer",
            "rate_limit_select", "rate_limit_selected", "rate_limit_write",
            "rate_limit_written", "duplicate_check", "duplicate_checked", "progress",
            "verify", "issue", "record", "reply", "audit", "done" >>
    ELSE << "idle", "defer",
            "rate_limit_select", "rate_limit_selected", "rate_limit_write",
            "rate_limit_written", "duplicate_check", "duplicate_checked",
            "verify", "issue", "record", "reply", "audit", "done" >>

StagePosition(entry, stage) ==
    CHOOSE i \in 1 .. Len(StageOrder(entry)) : StageOrder(entry)[i] = stage

(* C29.  In every redeem invocation the stages run in the order rate-limit *)
(* check, duplicate check, verification, issuance, recording: every step   *)
(* of an invocation leads to the next position of its handler or ends it   *)
(* (showing its reply and then writing its audit entry), so no stage runs  *)
(* twice; the duplicate check is entered only when the rate limit allowed; *)
(* the duplicate check reports whether the ledger holds the invoice id     *)
(* when its SELECT is executed, and verification is entered only when it   *)
(* reported that the invoice was not redeemed (another invocation may      *)
(* record the invoice after that SELECT); issuance is entered only when    *)
(* verification was valid, recording only when issuance succeeded; and a   *)
(* rate-limit denial ends the invocation straight from the rate-limit      *)
(* check, with no lookup, key or row.                                      *)
C29_StagesInOrder ==
    [][ \A t \in Tasks :
          ( pc'[t] # pc[t] /\ req'[t].entry \in Entries ) =>
            /\ pc'[t] \in { StageOrder(req'[t].entry)[StagePosition(req'[t].entry, pc[t]) + 1],
                            "audit", "done" }
            /\ pc'[t] \in { "duplicate_check", "duplicate_checked", "progress",
                            "verify", "issue", "record", "reply" }
                  => rateLimitResult'[t].allowed
            /\ pc'[t] = "duplicate_checked"
                  => ( alreadyRedeemed'[t] <=> RowsOf(req[t].invoiceId) # {} )
            /\ pc'[t] \in { "progress", "verify", "issue", "record", "reply" }
                  => ~alreadyRedeemed'[t]
            /\ pc'[t] \in { "issue", "record", "reply" } => verification'[t].valid
            /\ pc'[t] \in { "record", "reply" } => licenseResult'[t].success
            /\ pc'[t] = "reply" => RowsBy(t)' # {}
            /\ outcome'[t] = "RATE_LIMITED"
                  => /\ pc[t] = "rate_limit_selected"
                     /\ pc'[t] = "done"
                     /\ lookup'[t] = <<>>
                     /\ verification'[t] = NoVerification
                     /\ licenseResult'[t] = NoLicense
                     /\ RowsBy(t)' = {} ]_vars

\* one invocation went through every stage and another was denied at the
\* rate-limit check
C29_Witness ==
    \E t1, t2 \in Tasks :
        /\ outcome[t1] = "SUCCESS"
        /\ outcome[t2] = "RATE_LIMITED"
        /\ lookup[t1] # <<>>
        /\ lookup[t2] = <<>>

(* C30.  A checkRateLimit call that denies leaves the stored counter for  *)
(* (userId, action) unchanged: the row, with its attempts, first_attempt,  *)
(* last_attempt and reset_after, is the same after each step of the call   *)
(* (its SELECT and the return of the denial) as before it, and the call    *)
(* returns the attempts and reset time of the row it read.                 *)
C30_DenialLeavesCounter ==
    [][ \A t \in Tasks :
          /\ SelectAnswers(t) => rate_limits' = rate_limits
          /\ CallDenies(t)
                => /\ rate_limits' = rate_limits
                   /\ rlRow[t].present
                   /\ rateLimitResult'[t].attempts = rlRow[t].attempts
                   /\ rateLimitResult'[t].resetAfter
                         = ParseDate(rlRow[t].reset_after) ]_vars

\* a call found a counter at its limit and denied
C30_Witness ==
    \E t \in Tasks :
        /\ outcome[t] = "RATE_LIMITED"
        /\ ~rateLimitResult[t].allowed
        /\ rate_limits[CallKey(t)].present
        /\ rateLimitResult[t].attempts >= rateLimitResult[t].maxAttempts
        /\ rate_limits[CallKey(t)].attempts = rateLimitResult[t].attempts
        /\ ParseDate(rate_limits[CallKey(t)].reset_after)
              = rateLimitResult[t].resetAfter

(* C31.  Every redeem invocation that has started eventually ends with    *)
(* exactly one outcome of the closed set, given that every ledger,         *)
(* verifier and issuer call returns or fails: no invocation stays in a     *)
(* stage forever, and an outcome once shown is never replaced.             *)
C31_EventuallyOneOutcome ==
    /\ \A t \in Tasks :
          (pc[t] # "idle" /\ req[t].entry \in Entries)
             ~> (Done(t) /\ outcome[t] \in Outcomes)
    /\ [][ \A t \in Tasks :
              /\ outcome[t] # "" => outcome'[t] = outcome[t]
              /\ Done(t) => pc'[t] = "done" ]_vars

\* both invocations have ended, one on the success path and one on a
\* failure exit
C31_Witness ==
    /\ \A t \in Tasks : Done(t) /\ outcome[t] \in Outcomes
    /\ \E t \in Tasks : outcome[t] = "SUCCESS"
    /\ \E t \in Tasks : outcome[t] \in Outcomes \ { "SUCCESS" }

\* the audit actions a key retrieval may log
KeyAuditKinds == { "command_used", "key_retrieval", "key_retrieval_button" }

(* C32.  Key retrieval, by the /key command or by the Get My Keys button,  *)
(* leaves redeemed_invoices and rate_limits unchanged: it consumes no      *)
(* rate-limit budget and creates or alters no redemption record, and what  *)
(* it writes is audit entries of the asking user only.                     *)
C32_RetrievalOnlyAudits ==
    [][ userLicenses' # userLicenses =>
          /\ redeemed_invoices' = redeemed_invoices
          /\ rate_limits' = rate_limits
          /\ audit_log \sqsubseteq audit_log'
          /\ \A e \in BagToSet(audit_log' (-) audit_log) :
                /\ e.user_id = userLicenses'.userId
                /\ e.action \in KeyAuditKinds ]_vars

\* a user who holds a stored counter and a redemption record has asked for
\* the keys through the button, and the retrieval was logged
C32_Witness ==
    /\ userLicenses.rows # <<>>
    /\ \E a \in ActionKinds : rate_limits[<<userLicenses.userId, a>>].present
    /\ \E e \in BagToSet(audit_log) :
          /\ e.action = "key_retrieval_button"
          /\ e.user_id = userLicenses.userId

(* C33.  Once a redemption record exists for an invoice id, its           *)
(* requester, license key and redeemed_at never change and the record is   *)
(* never removed: after every step of a redemption, a key retrieval or an  *)
(* audit write the record is still there, and it is still the only record  *)
(* of its invoice id.                                                      *)
C33_RecordsImmutable ==
    [][ \A r \in redeemed_invoices :
          /\ r \in redeemed_invoices'
          /\ \A r2 \in redeemed_invoices' : r2.invoice_id = r.invoice_id => r2 = r ]_vars

\* a record exists whose invoice another invocation asked for and was
\* refused, and whose owner has retrieved the keys
C33_Witness ==
    \E r \in redeemed_invoices, t \in Tasks :
        /\ Done(t)
        /\ req[t].invoiceId = r.invoice_id
        /\ outcome[t] \in { "ALREADY_REDEEMED", "UNEXPECTED_ERROR" }
        /\ userLicenses.userId = r.discord_user_id
        /\ userLicenses.rows # <<>>

(* C34.  Every invoice_id stored in redeemed_invoices is in sanitized form *)
(* (5 to 50 characters, all in [A-Za-z0-9_-]) and equals the id under      *)
(* which the storefront lookup of its redemption was made.                 *)
C34_StoredIdSanitized ==
    \A t \in Tasks :
        \A r \in RowsBy(t) :
            /\ Len(r.invoice_id) >= MinInvoiceIdLen
            /\ Len(r.invoice_id) <= MaxInvoiceIdLen
            /\ \A i \in 1 .. Len(r.invoice_id) : r.invoice_id[i] \in AllowedChars
            /\ lookup[t] # <<>>
            /\ r.invoice_id = lookup[t][1]

(* C35.  checkRateLimit treats a stored counter as still inside its        *)
(* window exactly when less than timeWindowHours have passed between the   *)
(* counter's first_attempt and the call, whatever the time of day of the   *)
(* first attempt and of the call: the row its SELECT reads is the stored   *)
(* row in that case and no row otherwise.                                  *)
C35_WindowIsElapsedTime ==
    [][ \A t \in Tasks :
          ( SelectAnswers(t) /\ rate_limits[CallKey(t)].present )
          => ( rlRow'[t].present
                 <=> CallTime(t) - ParseDate(rate_limits[CallKey(t)].first_attempt)
                        < req[t].timeWindowHours ) ]_vars

(* C36.  Whenever checkRateLimit denies a call, the resetAfter it returns  *)
(* is strictly later than the time at which that call was made.            *)
C36_ResetAfterInFuture ==
    [][ \A t \in Tasks :
          CallDenies(t) => rateLimitResult'[t].resetAfter > CallTime(t) ]_vars

(* C37.  validateInvoice returns invalid for every invoice whose           *)
(* created_at is missing or cannot be parsed as a timestamp, even when the *)
(* invoice is paid and has a positive amount.                              *)
C37_NoCreationTimeIsInvalid ==
    ( /\ pc[1] = "done"
      /\ verification[1].invoiceData.created_at = <<>> )
    => ~verification[1].valid

(* C38.  Rate-limit counters are independent per (userId, action): a      *)
(* checkRateLimit call for one pair leaves the stored counter of every     *)
(* other pair as it was, and whether it allows is decided by the clock,    *)
(* the limit and the stored counter of its own pair alone, which only      *)
(* calls for that pair have written.                                       *)
C38_CountersIndependent ==
    [][ \A t \in Tasks :
          ( pc'[t] # pc[t] /\ ~CallReturned(t) )
          => /\ \A k2 \in DOMAIN rate_limits :
                   k2 # CallKey(t) => rate_limits'[k2] = rate_limits[k2]
             /\ SelectAnswers(t)
                   => rlRow'[t]
                        = IF /\ rate_limits[CallKey(t)].present
                             /\ TextGreater(rate_limits[CallKey(t)].first_attempt,
                                            cutoffTime[t])
                          THEN rate_limits[CallKey(t)]
                          ELSE NoRow
             /\ CallDecides(t)
                   => ( CallDenies(t)
                          <=> /\ rlRow[t].present
                              /\ rlRow[t].attempts >= req[t].maxAttempts ) ]_vars

\* two overlapping calls for the two actions of one user, with the same
\* limit, have returned: one was denied, the other allowed
C38_Witness ==
    \E t, u \in Tasks :
        /\ CallReturned(t) /\ CallReturned(u)
        /\ req[t].userId = "U1" /\ req[u].userId = "U1"
        /\ req[t].action # req[u].action
        /\ req[t].maxAttempts = req[u].maxAttempts
        /\ outcome[t] = "RATE_LIMITED"
        /\ ~rateLimitResult[t].allowed
        /\ rateLimitResult[u].allowed

====
